---- MODULE Spec2Model ----
(***************************************************************************)
(* Verification model of the its-client messaging fabric:                  *)
(*   - the MQTT client adapter (iot3.core.mqtt / its_vehicle.mqtt):        *)
(*     subscription set, re-entrant lock, connect-time replay;             *)
(*   - the Inter-Queue Manager (its_iqm.iqm): neighbour lifecycle          *)
(*     (update_cb), the authorities that feed it, and message copy         *)
(*     (qm_copy_cb) through the filters (its_iqm.filters).                 *)
(***************************************************************************)
EXTENDS Integers, Sequences, FiniteSets, TLC

(***************************************************************************)
(* Bounds of the model.                                                    *)
(***************************************************************************)
\* number of distinct topic patterns a caller may subscribe to
MaxTopics == 2
\* number of SUBSCRIBE/UNSUBSCRIBE packets in flight to the broker
MaxPending == 2
\* number of distinct messages the broker may send
MaxMsgs == 2
\* number of received messages queued in the paho client
MaxInbox == 2
\* number of calls of the user callback that are followed
MaxDelivered == 3
\* number of DENM objects constructed
MaxDenms == 3
\* depth of the deepest quadkey
MaxQkDepth == 3
MaxSteps == 2
MaxZoneSize == 5
MaxSI == 4
\* number of messages decoded
MaxDecoded == 2
\* number of DENMs each thread creates
MaxCreates == 2
\* seconds of the clock of the GNSS caches
MaxSeconds == 3
\* number of spans offered to the telemetry exporter
MaxOffered == 6
\* the backlog the telemetry exporter is configured with
MaxBacklog == 2

VARIABLES
    \* ---- MQTT client adapter ----
    subscriptions,  \* MqttClient.subscriptions, the in-memory set
    lockOwner,      \* holder of MqttClient.subscriptions_lock, or NoThread
    msg_cb,         \* TRUE when MqttClient.msg_cb is a callable, FALSE when None
    connected,      \* what the client believes: self.connected / client.is_connected()
    link,           \* TRUE while the broker holds a session for the client
    wire,           \* topics the broker has subscribed for that session
    pending,        \* packets written by the client and not yet processed by the broker
    netpc,          \* position of the paho network thread
    pc,             \* position of each caller thread
    arg,            \* topics argument of the operation a caller thread is running
    old,            \* subscription set found by a thread when it entered subscribe_replace
    rd,             \* what a thread read from self.subscriptions in set_msg_cb: "none" yet,
                    \* a "whole" set (the one before or the one after the replacement
                    \* running at that time, if any) or a "partial" one
    sent,           \* whether the subscribe_replace a thread is running found the client connected
    lastOp          \* the last subscription operation that returned: its name, for
                    \* subscribe_replace its argument, and whether it found the client connected

VARIABLES
    \* ---- Inter-Queue Manager: neighbours ----
    authority,           \* the authority variant in use: "file", "http" or "mqtt"
    lastLoad,            \* outcome of the authority's last attempt to get the directory
    loaded,              \* loaded_nghbs, the argument of the update_cb call
    neighbours,          \* IQM.neighbours: id -> descriptor
    neighbours_clients,  \* IQM.neighbours_clients: id -> remote client
    running,             \* the remote clients started and not stopped, as <<id, descriptor>>
    upc,                 \* position of the authority thread
    todoStop,            \* members of old_nghbs_ids the first loop has yet to visit
    todoStart,           \* members of new_nghbs_ids the second loop has yet to visit
    stopped,             \* neighbours stopped so far by the current update_cb call
    started,             \* neighbours started so far by the current update_cb call
    cur0,                \* IQM.neighbours as it was when the authority began its attempt
    run0                 \* running as it was when the authority began its attempt

mqttVars == <<subscriptions, lockOwner, msg_cb, connected, link, wire, pending,
              netpc, pc, arg, old, rd, sent, lastOp>>

nghbVars == <<authority, lastLoad, loaded, neighbours, neighbours_clients, running,
              upc, todoStop, todoStart, stopped, started, cur0, run0>>

VARIABLES
    \* ---- Inter-Queue Manager: message copy ----
    filters,   \* IQM.filters: the "in" and the "out" filters, in declared order
    last       \* what qm_copy_cb did with the last message delivered

copyVars == <<filters, last>>

VARIABLES
    \* ---- MQTT client adapter: message reception ----
    inbox,      \* messages the broker has sent, queued in the paho client
    delivered,  \* messages handed to the user callback, in order
    cbRaised,   \* whether a call of the user callback has raised
    rxLoop      \* the paho network loop started by start(): "running" or "dead"

rxVars == <<inbox, delivered, cbRaised, rxLoop>>

VARIABLES
    \* ---- DENM codec ----
    seq_nums,   \* DENM._seq_nums: the last sequence number allocated, per UUID
    seq0,       \* DENM._seq_nums as it was when the observation started
    denms,      \* the DENM objects constructed by the callers since, in creation order
    decoded,    \* the messages decoded by message_from_json since, in order
    creators,   \* the threads that create new DENMs: where each one is in
                \* _get_seq_num, for which UUID, the value it is about to
                \* store and the numbers its calls have returned
    event_type, \* _message["message"]["situation_container"]["event_type"] of
                \* one DENM: its "cause" and its "subcause" ({} when the key
                \* is missing)
    assigned    \* the last assignment to cause or subcause of that DENM: the
                \* variant of SubCause the stored subcause was a member of,
                \* and the exception the assignment raised

denmMore == <<decoded, creators, event_type, assigned>>

denmVars == <<seq_nums, seq0, denms, denmMore>>

VARIABLES
    \* ---- quadkeys ----
    qkOp,       \* the last operation called on a quadkey
    qkIn,       \* the quadkey it was called on
    qkArg,      \* its argument, for the operations that have one (otherwise 0)
    qkOut       \* what it returned, or the exception it raised

qkVars == <<qkOp, qkIn, qkArg, qkOut>>

VARIABLES
    \* ---- region of interest and the reporting step ----
    roiCall,    \* the last call of RegionOfInterest.get: its arguments and its outcome
    stepRes,    \* its-vehicle and iot3: how the last reporting step ended
    worker,     \* its_client: where MqttWorker.step and its publish thread are
    log         \* per client, the subscription updates and the publishes, in order

VARIABLES
    \* ---- Inter-Queue Manager of its_iqm/iqm.py ----
    local_qm_subscriptions  \* the topics IQM.local_qm is subscribed to

roiVars == <<roiCall, stepRes, worker, log>>

VARIABLES
    \* ---- GNSS caches ----
    clock,      \* time.time(), in whole seconds
    gnss_last,  \* iot3 GNSS._last: per class of gpsd message, the last one
                \* received and when
    gpsd_data,  \* its-vehicle GNSSProvider.data: None or the last report made
    gnss_got    \* the last answer of a cache: which cache, when, and the
                \* report (with the time its fix was stored) or None

gnssVars == <<clock, gnss_last, gpsd_data, gnss_got>>

VARIABLES
    \* ---- telemetry exporter ----
    span_queue, \* Otel.queue: the spans offered and not yet taken by the exporter
    spans,      \* Otel.spans: the spans the exporter thread holds for the next send
    otel_run,   \* where the exporter thread is in _run, and how many spans
                \* the current drain has taken
    offered,    \* the number of spans offered so far; spans are numbered from 1
    exported    \* the last call of export_span: the span, the queue before
                \* the call and after it

otelVars == <<span_queue, spans, otel_run, offered, exported>>

VARIABLES
    \* ---- Inter-Queue Manager: shutdown ----
    main        \* the main thread in IQM.run_forever: where it is, and in its
                \* loop over neighbours the size the dict had when the loop
                \* began, the ids visited and the exception raised

iqmVars == <<main>>

moreVars == <<gnssVars, otelVars, iqmVars>>

laterVars == <<rxVars, denmVars, qkVars, roiVars, local_qm_subscriptions, moreVars>>

\* what the actions of one part leave alone
rxOthers == <<local_qm_subscriptions, mqttVars, nghbVars, copyVars, denmVars, qkVars, roiVars, moreVars>>
denmOthers == <<local_qm_subscriptions, mqttVars, nghbVars, copyVars, rxVars, qkVars, roiVars, moreVars>>
qkOthers == <<local_qm_subscriptions, mqttVars, nghbVars, copyVars, rxVars, denmVars, roiVars, moreVars>>
roiOthers == <<local_qm_subscriptions, mqttVars, nghbVars, copyVars, rxVars, denmVars, qkVars, moreVars>>
moreOthers == <<local_qm_subscriptions, mqttVars, nghbVars, copyVars, rxVars, denmVars, qkVars, roiVars>>
gnssOthers == <<moreOthers, otelVars, iqmVars>>
otelOthers == <<moreOthers, gnssVars, iqmVars>>
iqmOthers == <<local_qm_subscriptions, mqttVars, copyVars, rxVars, denmVars, qkVars, roiVars,
               gnssVars, otelVars>>

vars == <<mqttVars, nghbVars, copyVars, laterVars>>

(***************************************************************************)
(* MQTT client adapter                                                     *)
(***************************************************************************)
Topics == 1..MaxTopics
Users == {"u1", "u2"}
NoThread == "none"

SubReq(T) == [k |-> "SUB", t |-> T]
UnsubReq(T) == [k |-> "UNSUB", t |-> T]

\* paho client.subscribe()/unsubscribe(): the packet is written when there is
\* a socket, otherwise the call returns an error code that the adapter ignores.
Send(q, reqs) == IF link THEN q \o reqs ELSE q

\* the RLock can be taken by a thread when it is free or already its own
CanLock(t) == lockOwner \in {NoThread, t}

\* packets subscribe() emits
SubscribePackets(T) ==
    LET sub == T \ subscriptions
    IN IF sub # {} /\ connected THEN <<SubReq(sub)>> ELSE <<>>

\* packets unsubscribe() emits
UnsubscribePackets(T) ==
    LET unsub == T \cap subscriptions
    IN IF unsub # {} /\ connected THEN <<UnsubReq(unsub)>> ELSE <<>>

\* subscribe_replace() that forgets to unsubscribe the topics it drops
ReplacePackets_NoUnsub(T) ==
    IF connected
    THEN LET sub == T \ subscriptions
         IN IF sub # {} THEN <<SubReq(sub)>> ELSE <<>>
    ELSE <<>>

\* packets subscribe_replace() emits
ReplacePackets(T) ==
    IF connected
    THEN LET unsub == subscriptions \ T
             sub == T \ subscriptions
         IN (IF unsub # {} THEN <<UnsubReq(unsub)>> ELSE <<>>)
            \o (IF sub # {} THEN <<SubReq(sub)>> ELSE <<>>)
    ELSE <<>>

\* __on_connect() that subscribes to nothing
ReplayPackets_None ==
    <<>>

\* packets __on_connect() emits
ReplayPackets ==
    IF subscriptions # {} THEN <<SubReq(subscriptions)>> ELSE <<>>

Room(reqs) == Len(pending) + Len(reqs) <= MaxPending

InitMqtt ==
    /\ subscriptions = {}
    /\ lockOwner = NoThread
    /\ msg_cb \in BOOLEAN
    /\ connected = FALSE
    /\ link = FALSE
    /\ wire = {}
    /\ pending = <<>>
    /\ netpc = "down"
    /\ pc = [u \in Users |-> "idle"]
    /\ arg = [u \in Users |-> {}]
    /\ old = [u \in Users |-> {}]
    /\ rd = [u \in Users |-> "none"]
    /\ sent = [u \in Users |-> FALSE]
    /\ lastOp = <<"none", {}, FALSE>>

\* subscribe(topics)
subscribe(u, T) ==
    /\ pc[u] = "idle"
    /\ msg_cb
    /\ CanLock(u)
    /\ Room(SubscribePackets(T))
    /\ pending' = Send(pending, SubscribePackets(T))
    /\ subscriptions' = subscriptions \cup T
    /\ lastOp' = <<"subscribe", {}, connected>>
    /\ UNCHANGED <<lockOwner, msg_cb, connected, link, wire, netpc, pc, arg, old, rd, sent>>
    /\ UNCHANGED nghbVars
    /\ UNCHANGED copyVars
    /\ UNCHANGED laterVars

\* unsubscribe(topics)
unsubscribe(u, T) ==
    /\ pc[u] = "idle"
    /\ CanLock(u)
    /\ Room(UnsubscribePackets(T))
    /\ pending' = Send(pending, UnsubscribePackets(T))
    /\ subscriptions' = subscriptions \ T
    /\ lastOp' = <<"unsubscribe", {}, connected>>
    /\ UNCHANGED <<lockOwner, msg_cb, connected, link, wire, netpc, pc, arg, old, rd, sent>>
    /\ UNCHANGED nghbVars
    /\ UNCHANGED copyVars
    /\ UNCHANGED laterVars

\* unsubscribe_all(): takes the lock, then unsubscribe(self.subscriptions)
\* takes it again
unsubscribe_all(u) ==
    /\ pc[u] = "idle"
    /\ CanLock(u)
    /\ Room(UnsubscribePackets(subscriptions))
    /\ pending' = Send(pending, UnsubscribePackets(subscriptions))
    /\ subscriptions' = subscriptions \ subscriptions
    /\ lastOp' = <<"unsubscribe_all", {}, connected>>
    /\ UNCHANGED <<lockOwner, msg_cb, connected, link, wire, netpc, pc, arg, old, rd, sent>>
    /\ UNCHANGED nghbVars
    /\ UNCHANGED copyVars
    /\ UNCHANGED laterVars

\* subscribe_replace(topics), up to and including the packets it writes
subscribe_replace_send(u, T) ==
    /\ pc[u] = "idle"
    /\ msg_cb
    /\ CanLock(u)
    /\ Room(ReplacePackets(T))
    /\ lockOwner' = u
    /\ pending' = Send(pending, ReplacePackets(T))
    /\ pc' = [pc EXCEPT ![u] = "rep_clear"]
    /\ arg' = [arg EXCEPT ![u] = T]
    /\ old' = [old EXCEPT ![u] = subscriptions]
    /\ sent' = [sent EXCEPT ![u] = connected]
    /\ UNCHANGED <<subscriptions, msg_cb, connected, link, wire, netpc, rd, lastOp>>
    /\ UNCHANGED nghbVars
    /\ UNCHANGED copyVars
    /\ UNCHANGED laterVars

\* subscribe_replace: self.subscriptions.clear()
subscribe_replace_clear(u) ==
    /\ pc[u] = "rep_clear"
    /\ subscriptions' = {}
    /\ pc' = [pc EXCEPT ![u] = "rep_update"]
    /\ UNCHANGED <<lockOwner, msg_cb, connected, link, wire, pending, netpc, arg, old, rd, sent, lastOp>>
    /\ UNCHANGED nghbVars
    /\ UNCHANGED copyVars
    /\ UNCHANGED laterVars

\* subscribe_replace: self.subscriptions.update(topics), then the lock is released
subscribe_replace_update(u) ==
    /\ pc[u] = "rep_update"
    /\ subscriptions' = subscriptions \cup arg[u]
    /\ lockOwner' = NoThread
    /\ pc' = [pc EXCEPT ![u] = "idle"]
    /\ arg' = [arg EXCEPT ![u] = {}]
    /\ old' = [old EXCEPT ![u] = {}]
    /\ sent' = [sent EXCEPT ![u] = FALSE]
    /\ lastOp' = <<"subscribe_replace", arg[u], sent[u]>>
    /\ UNCHANGED <<msg_cb, connected, link, wire, pending, netpc, rd>>
    /\ UNCHANGED nghbVars
    /\ UNCHANGED copyVars
    /\ UNCHANGED laterVars

\* set_msg_cb(msg_cb): "msg_cb is None and self.subscriptions", evaluated
\* without the lock (the set is read only when msg_cb is None); a None with
\* subscriptions pending raises, otherwise the assignment follows.
set_msg_cb_check(u, cb) ==
    \* the subscribe_replace, if any, that is between its entry and its return
    LET Replacing == {t \in Users : pc[t] \in {"rep_clear", "rep_update"}}
    IN  /\ pc[u] = "idle"
        /\ IF cb
           THEN /\ pc' = [pc EXCEPT ![u] = "cb_set"]
                /\ UNCHANGED rd
           ELSE IF subscriptions # {}
           THEN UNCHANGED <<pc, rd>>
           ELSE /\ pc' = [pc EXCEPT ![u] = "cb_clear"]
                /\ rd' = [rd EXCEPT ![u] =
                            IF \A t \in Replacing : subscriptions \in {old[t], arg[t]}
                            THEN "whole" ELSE "partial"]
        /\ UNCHANGED <<subscriptions, lockOwner, msg_cb, connected, link, wire, pending, netpc,
                       arg, old, sent, lastOp>>
        /\ UNCHANGED nghbVars
        /\ UNCHANGED copyVars
        /\ UNCHANGED laterVars

\* set_msg_cb: self.msg_cb = msg_cb
set_msg_cb_assign(u) ==
    /\ pc[u] \in {"cb_set", "cb_clear"}
    /\ msg_cb' = (pc[u] = "cb_set")
    /\ pc' = [pc EXCEPT ![u] = "idle"]
    /\ rd' = [rd EXCEPT ![u] = "none"]
    /\ UNCHANGED <<subscriptions, lockOwner, connected, link, wire, pending, netpc,
                   arg, old, sent, lastOp>>
    /\ UNCHANGED nghbVars
    /\ UNCHANGED copyVars
    /\ UNCHANGED laterVars

\* the broker accepts the connection; clean_start=True: a fresh session
LinkUp ==
    /\ netpc = "down"
    /\ ~link
    /\ link' = TRUE
    /\ wire' = {}
    /\ pending' = <<>>
    /\ netpc' = "connack"
    /\ UNCHANGED <<subscriptions, lockOwner, msg_cb, connected, pc, arg, old, rd, sent, lastOp>>
    /\ UNCHANGED nghbVars
    /\ UNCHANGED copyVars
    /\ UNCHANGED laterVars

\* the connection is lost: the session and the packets in flight go with it
LinkDown ==
    /\ link
    /\ link' = FALSE
    /\ wire' = {}
    /\ pending' = <<>>
    /\ UNCHANGED <<subscriptions, lockOwner, msg_cb, connected, netpc, pc, arg, old, rd, sent, lastOp>>
    /\ UNCHANGED nghbVars
    /\ UNCHANGED copyVars
    /\ UNCHANGED laterVars

\* CONNACK handled: the client is connected (self.connected = True)
Connack ==
    /\ netpc = "connack"
    /\ IF link
       THEN connected' = TRUE /\ netpc' = "on_connect"
       ELSE connected' = connected /\ netpc' = "down"
    /\ UNCHANGED <<subscriptions, lockOwner, msg_cb, link, wire, pending, pc, arg, old, rd, sent, lastOp>>
    /\ UNCHANGED nghbVars
    /\ UNCHANGED copyVars
    /\ UNCHANGED laterVars

\* __on_connect: under the lock, subscribe again to the whole current set
on_connect ==
    LET NetThread == "net"
    IN  /\ netpc = "on_connect"
        /\ CanLock(NetThread)
        /\ Room(ReplayPackets)
        /\ pending' = Send(pending, ReplayPackets)
        /\ netpc' = "up"
        /\ UNCHANGED <<subscriptions, lockOwner, msg_cb, connected, link, wire, pc, arg, old, rd, sent, lastOp>>
        /\ UNCHANGED nghbVars
        /\ UNCHANGED copyVars
        /\ UNCHANGED laterVars

\* __on_disconnect / __on_socket_close
on_disconnect ==
    /\ netpc = "up"
    /\ ~link
    /\ connected' = FALSE
    /\ netpc' = "down"
    /\ UNCHANGED <<subscriptions, lockOwner, msg_cb, link, wire, pending, pc, arg, old, rd, sent, lastOp>>
    /\ UNCHANGED nghbVars
    /\ UNCHANGED copyVars
    /\ UNCHANGED laterVars

\* the broker processes the oldest packet in flight
BrokerProcess ==
    /\ link
    /\ pending # <<>>
    /\ wire' = IF Head(pending).k = "SUB" THEN wire \cup Head(pending).t
               ELSE wire \ Head(pending).t
    /\ pending' = Tail(pending)
    /\ UNCHANGED <<subscriptions, lockOwner, msg_cb, connected, link, netpc, pc, arg, old, rd, sent, lastOp>>
    /\ UNCHANGED nghbVars
    /\ UNCHANGED copyVars
    /\ UNCHANGED laterVars

NextMqtt ==
    \/ \E u \in Users, T \in SUBSET Topics : subscribe(u, T)
    \/ \E u \in Users, T \in SUBSET Topics : unsubscribe(u, T)
    \/ \E u \in Users : unsubscribe_all(u)
    \/ \E u \in Users, T \in SUBSET Topics : subscribe_replace_send(u, T)
    \/ \E u \in Users : subscribe_replace_clear(u)
    \/ \E u \in Users : subscribe_replace_update(u)
    \/ \E u \in Users, cb \in BOOLEAN : set_msg_cb_check(u, cb)
    \/ \E u \in Users : set_msg_cb_assign(u)
    \/ LinkUp
    \/ LinkDown
    \/ Connack
    \/ on_connect
    \/ on_disconnect
    \/ BrokerProcess

(***************************************************************************)
(* Strings are sequences of characters, so that str.startswith, slicing    *)
(* and concatenation are computed as Python computes them.                 *)
(***************************************************************************)
sInterQueue == <<"i", "n", "t", "e", "r", "Q", "u", "e", "u", "e">>

\* Python's None, where a string is expected and where an object is expected
NoneStr == <<"None">>
None == [t |-> "NoneType"]

\* topic.startswith(pattern)
StartsWith(t, p) == Len(p) <= Len(t) /\ SubSeq(t, 1, Len(p)) = p

\* s[n:]
SliceFrom(s0, n) == SubSeq(s0, n + 1, Len(s0))

(***************************************************************************)
(* Inter-Queue Manager: the neighbour directory and update_cb              *)
(***************************************************************************)
NghbIds == {"n1", "n2"}
DefaultSect == "DEFAULT"

\* neighbour descriptors an authority may deliver: two valid ones that differ,
\* one of another type, one without its host key
DescA == [type |-> "mqtt", host |-> "hostA", port |-> "1883", queue |-> sInterQueue]

\* the directories: every mapping of some neighbour ids to descriptors
Dirs ==
    LET Descs ==
            LET DescB == [type |-> "mqtt", host |-> "hostB", port |-> "1883", queue |-> sInterQueue]
                DescOtherType == [type |-> "amqp", host |-> "hostA", port |-> "5672", queue |-> sInterQueue]
                DescNoHost == [type |-> "mqtt", port |-> "1883", queue |-> sInterQueue]
            IN  {DescA, DescB, DescOtherType, DescNoHost}
    IN  UNION {[D -> Descs] : D \in SUBSET NghbIds}
EmptyDir == [id \in {} |-> DescA]

\* a mapping with one more entry, and a mapping without some keys
Put(f, k, v) == [x \in DOMAIN f \cup {k} |-> IF x = k THEN v ELSE f[x]]
Del(f, k) == [x \in DOMAIN f \ {k} |-> f[x]]

\* a configparser.ConfigParser used as a mapping: iteration and "in" see the
\* DEFAULT section next to the sections read, and DEFAULT has no key
AsConfigParser(d) == Put(d, DefaultSect, [k \in {} |-> ""])

\* old_nghbs_ids that overlooks the neighbours whose descriptor changed
old_nghbs_ids_GoneOnly(cur, ld) ==
    {id \in DOMAIN cur : id \notin DOMAIN ld}

\* old_nghbs_ids of update_cb
old_nghbs_ids(cur, ld) ==
    {id \in DOMAIN cur : id \notin DOMAIN ld \/ cur[id] # ld[id]}

\* new_nghbs_ids of update_cb
new_nghbs_ids(cur, ld) ==
    {id \in DOMAIN ld : id \notin DOMAIN cur \/ cur[id] # ld[id]}

\* cfg["general"]["prefix"] and cfg["general"]["suffix"] (the defaults)
CfgPrefix == NoneStr
CfgSuffix ==
    LET sV2x == <<"v", "2", "x">>
    IN  sV2x

\* the queue name update_cb computes for a neighbour
NghbInterqueue(d) ==
    LET prefix == IF "prefix" \in DOMAIN d THEN d.prefix ELSE CfgPrefix
        suffix == IF "suffix" \in DOMAIN d THEN d.suffix ELSE CfgSuffix
        q1 == IF prefix # NoneStr THEN prefix \o <<"/">> \o d.queue ELSE d.queue
    IN IF suffix # NoneStr /\ suffix # <<>> THEN q1 \o <<"/">> \o suffix ELSE q1

\* the queue names IQM.__init__ computes
LocalQueue(name) ==
    LET prefix == IF CfgPrefix # NoneStr THEN CfgPrefix \o <<"/">> ELSE <<>>
        suffix == IF CfgSuffix # NoneStr /\ CfgSuffix # <<>> THEN <<"/">> \o CfgSuffix ELSE CfgSuffix
    IN prefix \o name \o suffix
inqueue ==
    LET sInQueue == <<"i", "n", "Q", "u", "e", "u", "e">>
    IN  LocalQueue(sInQueue)
outqueue ==
    LET sOutQueue == <<"o", "u", "t", "Q", "u", "e", "u", "e">>
    IN  LocalQueue(sOutQueue)
interqueue == LocalQueue(sInterQueue)

\* IQM.local_qm, the client of the local broker
LocalQm == [t |-> "MqttClient", name |-> "local_qm"]

\* the remote client update_cb creates for a neighbour, with its qm_data and
\* the topics it is subscribed to
RemoteClient(d) ==
    LET sHash == <<"/", "#">>
    IN  [desc |-> d,
         qm_data |-> [copy_qm |-> LocalQm, copy_from |-> NghbInterqueue(d),
                      copy_to |-> <<outqueue>>],
         subscriptions |-> {NghbInterqueue(d) \o sHash}]

InitNghb ==
    /\ authority \in {"file", "http", "mqtt"}
    /\ lastLoad = "none"
    /\ loaded = EmptyDir
    /\ neighbours = EmptyDir
    /\ neighbours_clients = EmptyDir
    /\ running = {}
    /\ upc = "idle"
    /\ todoStop = {}
    /\ todoStart = {}
    /\ stopped = {}
    /\ started = {}
    /\ cur0 = EmptyDir
    /\ run0 = {}
    /\ local_qm_subscriptions = {inqueue \o <<"/", "#">>}

\* update_cb(loaded_nghbs) up to the two lists it computes
update_cb_enter(ld) ==
    /\ loaded' = ld
    /\ todoStop' = old_nghbs_ids(neighbours, ld)
    /\ todoStart' = new_nghbs_ids(neighbours, ld)
    /\ stopped' = {}
    /\ started' = {}
    /\ upc' = "update_cb"
    /\ UNCHANGED <<neighbours, neighbours_clients, running>>

\* starts that do not wait for the stops
StartsMayBegin_Any == TRUE

\* the second loop of update_cb comes after the first
StartsMayBegin == todoStop = {}

\* update_cb, one round of "for nghb_id in old_nghbs_ids"
update_cb_stop(id) ==
    /\ upc = "update_cb"
    /\ id \in todoStop
    /\ IF id \in DOMAIN neighbours_clients
       THEN /\ running' = running \ {<<id, neighbours_clients[id].desc>>}
            /\ neighbours' = Del(neighbours, id)
            /\ neighbours_clients' = Del(neighbours_clients, id)
            /\ stopped' = stopped \cup {id}
            /\ todoStop' = todoStop \ {id}
            /\ upc' = upc
       ELSE \* KeyError
            /\ upc' = "raised"
            /\ UNCHANGED <<running, neighbours, neighbours_clients, stopped, todoStop>>
    /\ UNCHANGED <<authority, lastLoad, loaded, todoStart, started, cur0, run0>>
    /\ UNCHANGED mqttVars
    /\ UNCHANGED copyVars
    /\ UNCHANGED laterVars

\* update_cb, one round of "for nghb_id in new_nghbs_ids"
update_cb_start(id) ==
    \* the keys update_cb reads from a descriptor after it has recorded it
    LET NeededKeys == {"queue", "host", "port"}
    IN  \* iterating a ConfigParser yields its DEFAULT section first
        LET NextToStart(n) == DefaultSect \in todoStart => n = DefaultSect
        IN  /\ upc = "update_cb"
            /\ StartsMayBegin
            /\ id \in todoStart
            /\ NextToStart(id)
            /\ LET d == loaded[id]
               IN IF "type" \notin DOMAIN d \/ d.type # "mqtt"
                  THEN \* KeyError, ValueError
                       /\ upc' = "raised"
                       /\ UNCHANGED <<neighbours, neighbours_clients, running, started, todoStart>>
                  ELSE IF ~(NeededKeys \subseteq DOMAIN d)
                  THEN \* KeyError, once the descriptor is recorded
                       /\ neighbours' = Put(neighbours, id, d)
                       /\ upc' = "raised"
                       /\ UNCHANGED <<neighbours_clients, running, started, todoStart>>
                  ELSE /\ neighbours' = Put(neighbours, id, d)
                       /\ neighbours_clients' = Put(neighbours_clients, id, RemoteClient(d))
                       /\ running' = running \cup {<<id, d>>}
                       /\ started' = started \cup {id}
                       /\ todoStart' = todoStart \ {id}
                       /\ upc' = upc
            /\ UNCHANGED <<authority, lastLoad, loaded, todoStop, stopped, cur0, run0>>
            /\ UNCHANGED mqttVars
            /\ UNCHANGED copyVars
            /\ UNCHANGED laterVars

\* update_cb of its_iqm/iqm.py, one round of "for nghb_id in new_nghbs_ids":
\* as above, but it is local_qm that is subscribed to the neighbour's
\* interqueue, and the remote client is started with no subscription
update_cb_start_local(id) ==
    /\ upc = "update_cb"
    /\ StartsMayBegin
    /\ id \in todoStart
    /\ DefaultSect \in todoStart => id = DefaultSect
    /\ LET d == loaded[id]
       IN IF "type" \notin DOMAIN d \/ d.type # "mqtt"
          THEN /\ upc' = "raised"
               /\ UNCHANGED <<neighbours, neighbours_clients, running, started, todoStart,
                              local_qm_subscriptions>>
          ELSE IF ~({"queue", "host", "port"} \subseteq DOMAIN d)
          THEN /\ neighbours' = Put(neighbours, id, d)
               /\ upc' = "raised"
               /\ UNCHANGED <<neighbours_clients, running, started, todoStart,
                              local_qm_subscriptions>>
          ELSE /\ neighbours' = Put(neighbours, id, d)
               /\ neighbours_clients' =
                    Put(neighbours_clients, id, [RemoteClient(d) EXCEPT !.subscriptions = {}])
               /\ local_qm_subscriptions' =
                    local_qm_subscriptions \cup {NghbInterqueue(d) \o <<"/", "#">>}
               /\ running' = running \cup {<<id, d>>}
               /\ started' = started \cup {id}
               /\ todoStart' = todoStart \ {id}
               /\ upc' = upc
    /\ UNCHANGED <<authority, lastLoad, loaded, todoStop, stopped, cur0, run0>>
    /\ UNCHANGED mqttVars
    /\ UNCHANGED copyVars
    /\ UNCHANGED <<rxVars, denmVars, qkVars, roiVars, moreVars>>

\* update_cb returns
update_cb_return ==
    /\ upc = "update_cb"
    /\ todoStop = {}
    /\ todoStart = {}
    /\ upc' = "idle"
    /\ UNCHANGED <<authority, lastLoad, loaded, neighbours, neighbours_clients, running,
                   todoStop, todoStart, stopped, started, cur0, run0>>
    /\ UNCHANGED mqttVars
    /\ UNCHANGED copyVars
    /\ UNCHANGED laterVars

\* authority/http.py load(): GET the directory; ok is FALSE on a network failure
http_load(ok, dir) ==
    \* {s: dict(loaded_nghbs[s]) for s in loaded_nghbs.sections()}
    LET SectionsDict(cp) == Del(cp, DefaultSect)
    IN  /\ authority = "http"
        /\ upc = "idle"
        /\ lastLoad' = IF ok THEN "ok" ELSE "failed"
        /\ cur0' = neighbours
        /\ run0' = running
        /\ update_cb_enter(SectionsDict(AsConfigParser(IF ok THEN dir ELSE EmptyDir)))
        /\ UNCHANGED authority
        /\ UNCHANGED mqttVars
        /\ UNCHANGED copyVars
        /\ UNCHANGED laterVars

\* authority/file.py load(): read the file; found is FALSE when there is none
file_load(found, dir) ==
    /\ authority = "file"
    /\ upc = "idle"
    /\ lastLoad' = IF found THEN "ok" ELSE "notfound"
    /\ cur0' = neighbours
    /\ run0' = running
    /\ update_cb_enter(AsConfigParser(IF found THEN dir ELSE EmptyDir))
    /\ UNCHANGED authority
    /\ UNCHANGED mqttVars
    /\ UNCHANGED copyVars
    /\ UNCHANGED laterVars

\* authority/mqtt.py _on_message(): the payload is the directory
mqtt_on_message(dir) ==
    /\ authority = "mqtt"
    /\ upc = "idle"
    /\ lastLoad' = "ok"
    /\ cur0' = neighbours
    /\ run0' = running
    /\ update_cb_enter(dir)
    /\ UNCHANGED authority
    /\ UNCHANGED mqttVars
    /\ UNCHANGED copyVars
    /\ UNCHANGED laterVars

NextNghb ==
    \/ \E ok \in BOOLEAN, dir \in Dirs : http_load(ok, dir)
    \/ \E found \in BOOLEAN, dir \in Dirs : file_load(found, dir)
    \/ \E dir \in Dirs : mqtt_on_message(dir)
    \/ \E id \in NghbIds \cup {DefaultSect} : update_cb_stop(id)
    \/ \E id \in NghbIds \cup {DefaultSect} : update_cb_start(id)
    \/ update_cb_return

\* the Inter-Queue Manager of its_iqm/iqm.py
NextNghbLocal ==
    \/ \E ok \in BOOLEAN, dir \in Dirs : http_load(ok, dir)
    \/ \E found \in BOOLEAN, dir \in Dirs : file_load(found, dir)
    \/ \E dir \in Dirs : mqtt_on_message(dir)
    \/ \E id \in NghbIds \cup {DefaultSect} : update_cb_stop(id)
    \/ \E id \in NghbIds \cup {DefaultSect} : update_cb_start_local(id)
    \/ update_cb_return

(***************************************************************************)
(* Inter-Queue Manager: filters and qm_copy_cb                             *)
(***************************************************************************)
\* retain values and JSON values carry their Python type
PyBool(b) == [t |-> "bool", v |-> b]
PyInt(i) == [t |-> "int", v |-> i]

Payloads ==
    LET PyObj(f) == [t |-> "obj", v |-> f]
    IN  \* payloads: {"hello": 1}, {"a": {"r": 2}}, {"a": "x"} and bytes that are not JSON
        LET PayloadHello == [json |-> TRUE, data |-> PyObj([hello |-> PyInt(1)])]
            PayloadNested == [json |-> TRUE, data |-> PyObj([a |-> PyObj([r |-> PyInt(2)])])]
            PayloadText ==
                LET PyStr(x) == [t |-> "str", v |-> x]
                IN  [json |-> TRUE, data |-> PyObj([a |-> PyStr("x")])]
            PayloadNotJson == [json |-> FALSE]
        IN  {PayloadHello, PayloadNested, PayloadText, PayloadNotJson}

\* "for p in path: data = data[p]"; KeyError and TypeError are reported as None
RECURSIVE Walk(_, _)
Walk(data, path) ==
    IF path = <<>> THEN data
    ELSE IF data.t = "obj" /\ Head(path) \in DOMAIN data.v
         THEN Walk(data.v[Head(path)], Tail(path))
         ELSE None

\* a regular expression made of literal characters and of "." (written Dot);
\* pattern.match(topic) matches at the start of the topic
Dot == "<.>"

\* Filter.apply, the search for a pattern that matches
Matches(f, topic) ==
    LET ReMatch(re, t) ==
            /\ Len(re) <= Len(t)
            /\ \A i \in 1..Len(re) : re[i] = Dot \/ re[i] = t[i]
    IN  \E i \in 1..Len(f.patterns) :
            \/ f.kind = "prefix" /\ StartsWith(topic, f.patterns[i])
            \/ f.kind = "regex" /\ ReMatch(f.patterns[i], topic)

\* Filter.apply, "match self._retain"
Retained(f, payload, retain) ==
    IF f.retain = None THEN retain
    ELSE IF f.retain.t \in {"bool", "int"} THEN f.retain
    ELSE LET found == IF payload.json THEN Walk(payload.data, f.retain.path) ELSE None
         IN IF found # None THEN found
            ELSE IF f.retain.fallback # None THEN f.retain.fallback
            ELSE retain

\* Filter.apply(topic, payload, retain)
Apply(f, topic, payload, retain) ==
    IF ~Matches(f, topic) THEN [topic |-> topic, payload |-> payload, retain |-> retain]
    ELSE IF f.drop THEN [topic |-> NoneStr, payload |-> None, retain |-> None]
    ELSE [topic |-> topic, payload |-> payload, retain |-> Retained(f, payload, retain)]

\* the record of one call of Filter.apply
Applied(dir, i, dest, topic, retain, r) ==
    [dir |-> dir, idx |-> i, dest |-> dest, topic_in |-> topic, retain_in |-> retain,
     topic_out |-> r.topic, retain_out |-> r.retain]

\* a filter loop that goes on after a drop
RECURSIVE FilterLoop_NoBreak(_, _, _, _, _, _, _, _)
FilterLoop_NoBreak(fs, dir, dest, i, topic, payload, retain, trace) ==
    IF i > Len(fs)
    THEN [topic |-> topic, payload |-> payload, retain |-> retain, trace |-> trace]
    ELSE LET r == Apply(fs[i], topic, payload, retain)
             tr == Append(trace, Applied(dir, i, dest, topic, retain, r))
         IN IF r.topic = NoneStr
            THEN FilterLoop_NoBreak(fs, dir, dest, i + 1, topic, payload, retain, tr)
            ELSE FilterLoop_NoBreak(fs, dir, dest, i + 1, r.topic, r.payload, r.retain, tr)

\* qm_copy_cb, "for f in data["filters"][dir]: ... if topic is None: break",
\* from the i-th filter on; a None topic in the result tells the break
RECURSIVE FilterLoop(_, _, _, _, _, _, _, _)
FilterLoop(fs, dir, dest, i, topic, payload, retain, trace) ==
    IF i > Len(fs)
    THEN [topic |-> topic, payload |-> payload, retain |-> retain, trace |-> trace]
    ELSE LET r == Apply(fs[i], topic, payload, retain)
             tr == Append(trace, Applied(dir, i, dest, topic, retain, r))
         IN IF r.topic = NoneStr
            THEN [topic |-> NoneStr, payload |-> None, retain |-> None, trace |-> tr]
            ELSE FilterLoop(fs, dir, dest, i + 1, r.topic, r.payload, r.retain, tr)

\* MqttClient.publish(**kwargs): a keyword it does not have is a TypeError,
\* otherwise the message goes to the broker of that client
publish(cli, kwargs) ==
    \* the keyword parameters of MqttClient.publish
    LET PublishParams == {"topic", "payload"}
    IN  IF DOMAIN kwargs \subseteq PublishParams
        THEN [raised |-> FALSE,
              wire |-> <<[via |-> cli, topic |-> kwargs.topic, payload |-> kwargs.payload]>>]
        ELSE [raised |-> TRUE, wire |-> <<>>]

\* qm_copy_cb, "for cp_to in data["copy_to"]" from the j-th destination on;
\* acc holds the filter calls, the publish calls and the messages sent so far
RECURSIVE CopyLoop(_, _, _, _, _, _)
CopyLoop(data, j, topic, payload, retain, acc) ==
    IF j > Len(data.copy_to) THEN acc
    ELSE LET cp_to == data.copy_to[j]
             mqtt_cli == IF data.copy_qm # None THEN data.copy_qm ELSE LocalQm
             new_topic == cp_to \o SliceFrom(topic, Len(data.copy_from))
             o == FilterLoop(filters.out, "out", j, 1, new_topic, payload, retain, acc.trace)
         IN IF o.topic = NoneStr
            THEN CopyLoop(data, j + 1, topic, payload, retain, [acc EXCEPT !.trace = o.trace])
            ELSE LET kwargs == [topic |-> o.topic, payload |-> o.payload, retain |-> o.retain]
                     res == publish(mqtt_cli, kwargs)
                     acc2 == [trace |-> o.trace,
                              calls |-> Append(acc.calls, [cli |-> mqtt_cli, kwargs |-> kwargs]),
                              wire |-> acc.wire \o res.wire,
                              raised |-> res.raised]
                 IN IF res.raised THEN acc2
                    ELSE CopyLoop(data, j + 1, topic, payload, retain, acc2)

\* qm_copy_cb(data, topic, payload)
qm_copy_cb(data, topic, payload) ==
    LET in == FilterLoop(filters.in, "in", 0, 1, topic, payload, PyBool(FALSE), <<>>)
        acc0 == [trace |-> in.trace, calls |-> <<>>, wire |-> <<>>, raised |-> FALSE]
    IN IF in.topic = NoneStr THEN acc0
       ELSE CopyLoop(data, 1, in.topic, in.payload, in.retain, acc0)

InFilterLists ==
    \* the filters of the configuration
    LET FilterCamRetain ==
            [type |-> "in", kind |-> "prefix", patterns |-> <<inqueue \o <<"/", "c", "a">> >>,
             drop |-> FALSE, retain |-> PyBool(TRUE)]
        FilterDenmDrop ==
            [type |-> "in", kind |-> "regex",
             patterns |-> << <<"o", Dot, "t">>, inqueue \o <<"/", "d", Dot, "n", "m">> >>,
             drop |-> TRUE, retain |-> None]
        FilterAllDrop ==
            [type |-> "in", kind |-> "prefix", patterns |-> << <<"i", "n">> >>, drop |-> TRUE, retain |-> None]
        FilterJsonRetain ==
            [type |-> "in", kind |-> "prefix", patterns |-> <<inqueue, NghbInterqueue(DescA)>>,
             drop |-> FALSE, retain |-> [t |-> "json", path |-> <<"a", "r">>, fallback |-> PyInt(7)]]
        FilterHandleRetain ==
            [type |-> "in", kind |-> "prefix", patterns |-> <<NghbInterqueue(DescA)>>,
             drop |-> FALSE, retain |-> PyInt(3)]
    IN  {<<>>,
         <<FilterCamRetain, FilterJsonRetain, FilterDenmDrop, FilterHandleRetain>>,
         <<FilterHandleRetain, FilterAllDrop, FilterCamRetain>>}

OutFilterLists ==
    LET FilterOutInterDrop ==
            [type |-> "out", kind |-> "prefix", patterns |-> <<interqueue>>, drop |-> TRUE, retain |-> None]
        FilterOutRetain ==
            [type |-> "out", kind |-> "prefix", patterns |-> <<outqueue>>,
             drop |-> FALSE, retain |-> [t |-> "json", path |-> <<"hello">>, fallback |-> None]]
        FilterOutRetainA ==
            [type |-> "out", kind |-> "prefix", patterns |-> <<outqueue>>,
             drop |-> FALSE, retain |-> [t |-> "json", path |-> <<"a">>, fallback |-> PyInt(7)]]
    IN  {<<>>, <<FilterOutRetain, FilterOutInterDrop>>, <<FilterOutRetainA>>}

\* what follows the queue name in the topic of a message
TopicTails ==
    LET sCam0 == <<"/", "c", "a", "m", "/", "a", "/", "0">>
        sDenm1 == <<"/", "d", "e", "n", "m", "/", "a", "/", "1">>
    IN  {sCam0, sDenm1}

InitCopy ==
    LET NoDelivery ==
            [src |-> "none", copy_from |-> NoneStr, topic |-> NoneStr, payload |-> None,
             trace |-> <<>>, calls |-> <<>>, wire |-> <<>>, raised |-> FALSE]
    IN  /\ filters \in [in : InFilterLists, out : OutFilterLists]
        /\ last = NoDelivery

Delivery(src, data, topic, payload) ==
    [src |-> src, copy_from |-> data.copy_from, topic |-> topic, payload |-> payload]
        @@ qm_copy_cb(data, topic, payload)

\* the local client delivers a message of the local inQueue to qm_copy_cb
local_on_message(tail, payload) ==
    \* qm_data of the local client
    LET LocalQmData == [copy_qm |-> None, copy_from |-> inqueue, copy_to |-> <<outqueue, interqueue>>]
    IN  /\ last' = Delivery("local", LocalQmData, inqueue \o tail, payload)
        /\ UNCHANGED filters
        /\ UNCHANGED mqttVars
        /\ UNCHANGED nghbVars
        /\ UNCHANGED laterVars

\* the remote client of a running neighbour delivers a message of that
\* neighbour's interqueue to qm_copy_cb
remote_on_message(id, tail, payload) ==
    /\ id \in DOMAIN neighbours_clients
    /\ <<id, neighbours_clients[id].desc>> \in running
    /\ last' = Delivery(id, neighbours_clients[id].qm_data,
                        neighbours_clients[id].qm_data.copy_from \o tail, payload)
    /\ UNCHANGED filters
    /\ UNCHANGED mqttVars
    /\ UNCHANGED nghbVars
    /\ UNCHANGED laterVars

NextCopy ==
    \/ \E dir \in Dirs : mqtt_on_message(dir)
    \/ \E id \in NghbIds : update_cb_stop(id)
    \/ \E id \in NghbIds : update_cb_start(id)
    \/ update_cb_return
    \/ \E tail \in TopicTails, payload \in Payloads : local_on_message(tail, payload)
    \/ \E id \in NghbIds, tail \in TopicTails, payload \in Payloads :
          remote_on_message(id, tail, payload)

(***************************************************************************)
(* MQTT client adapter: message reception                                  *)
(***************************************************************************)
\* the messages the broker may send
Msgs == 1..MaxMsgs

InitRx ==
    /\ inbox = <<>>
    /\ delivered = <<>>
    /\ cbRaised = FALSE
    /\ rxLoop = "running"

\* the broker sends a message matching a subscription: paho queues it
BrokerSend(m) ==
    /\ Len(inbox) < MaxInbox
    /\ inbox' = Append(inbox, m)
    /\ UNCHANGED <<delivered, cbRaised, rxLoop>>
    /\ UNCHANGED rxOthers

\* __on_message(message), called by the paho network loop: self.msg_cb(...)
\* is called with no exception handler around it, so an exception of the
\* callback leaves __on_message and goes up into the network loop, which
\* the adapter started with paho's defaults (exceptions of callbacks are
\* re-raised): the loop thread ends.
on_message(raises) ==
    /\ rxLoop = "running"
    /\ inbox # <<>>
    /\ Len(delivered) < MaxDelivered
    /\ inbox' = Tail(inbox)
    /\ delivered' = Append(delivered, Head(inbox))
    /\ cbRaised' = (cbRaised \/ raises)
    /\ rxLoop' = IF raises THEN "dead" ELSE rxLoop
    /\ UNCHANGED rxOthers

NextRx ==
    \/ \E m \in Msgs : BrokerSend(m)
    \/ \E raises \in BOOLEAN : on_message(raises)

(***************************************************************************)
(* DENM codec                                                              *)
(***************************************************************************)
Uuids == {"ua", "ub"}

\* the threads that create DENMs at the same time
Threads == {"t1", "t2"}

\* the message types
cam == <<"c", "a", "m">>
denm == <<"d", "e", "n", "m">>

\* TerminationType, and None for a DENM that is not terminated
isCancellation == "isCancellation"
TermNone == "None"
\* the message has no "termination" entry
TermAbsent == "absent"

\* the width of the sequence number
SeqModulus == 65536

\* _seq_nums is empty when the class is loaded; it is observed from there, or
\* from a later point where a UUID has gone almost round the 16 bits
InitDenm ==
    /\ seq0 \in UNION {[D -> {SeqModulus - 2, SeqModulus - 1}] : D \in SUBSET Uuids}
    /\ seq_nums = seq0
    /\ denms = <<>>
    /\ decoded = <<>>
    /\ creators = [t \in Threads |-> [pc |-> "idle", uuid |-> "", new |-> 0, got |-> <<>>]]
    /\ event_type = [cause |-> "dangerousSituation", subcause |-> {}]
    /\ assigned = [variant |-> NoneStr, raised |-> NoneStr]

\* a counter that does not wrap
get_seq_num_NoWrap(nums, uuid) ==
    IF uuid \in DOMAIN nums
    THEN [nums EXCEPT ![uuid] = nums[uuid] + 1]
    ELSE [u \in DOMAIN nums \cup {uuid} |-> IF u = uuid THEN 0 ELSE nums[u]]

\* _get_seq_num(uuid): the class dictionary after the call; the number the
\* call returns is its entry for uuid
get_seq_num(nums, uuid) ==
    IF uuid \in DOMAIN nums
    THEN [nums EXCEPT ![uuid] = (nums[uuid] + 1) % SeqModulus]
    ELSE [u \in DOMAIN nums \cup {uuid} |-> IF u = uuid THEN 0 ELSE nums[u]]

\* a constructor that allocates a sequence number for a continuation too
DENM_AlwaysAllocates(uuid, sequence_number, termination) ==
    /\ Len(denms) < MaxDenms
    /\ seq_nums' = get_seq_num(seq_nums, uuid)
    /\ denms' = Append(denms,
            [uuid |-> uuid,
             sequence_number |-> IF sequence_number = {} THEN seq_nums'[uuid]
                                 ELSE CHOOSE n \in sequence_number : TRUE,
             termination |-> IF termination # TermNone THEN termination ELSE TermAbsent,
             supplied |-> sequence_number])
    /\ UNCHANGED <<seq0, denmMore>>
    /\ UNCHANGED denmOthers

\* DENM(uuid=, termination=, sequence_number=): a sequence number is allocated
\* only when none is given
DENM(uuid, sequence_number, termination) ==
    /\ Len(denms) < MaxDenms
    /\ seq_nums' = IF sequence_number = {} THEN get_seq_num(seq_nums, uuid) ELSE seq_nums
    /\ denms' = Append(denms,
            [uuid |-> uuid,
             sequence_number |-> IF sequence_number = {} THEN seq_nums'[uuid]
                                 ELSE CHOOSE n \in sequence_number : TRUE,
             termination |-> IF termination # TermNone THEN termination ELSE TermAbsent,
             supplied |-> sequence_number])
    /\ UNCHANGED <<seq0, denmMore>>
    /\ UNCHANGED denmOthers

\* denm.termination
termination_getter(d) ==
    IF d.termination = TermAbsent THEN TermNone ELSE d.termination

\* denm.termination = termination
termination_setter(i, termination) ==
    /\ i \in 1..Len(denms)
    /\ denms' = [denms EXCEPT ![i].termination = termination]
    /\ UNCHANGED <<seq_nums, seq0, denmMore>>
    /\ UNCHANGED denmOthers

\* message_from_json(msg_json) for a well-formed message of type msg_type sent
\* by source_uuid: "msg = cls(uuid=source_uuid, gnss_report=GNSSReport())"
\* runs the constructor with no sequence_number, then the content is replaced
message_from_json(msg_type, source_uuid) ==
    /\ Len(decoded) < MaxDecoded
    /\ seq_nums' = IF msg_type = denm THEN get_seq_num(seq_nums, source_uuid)
                   ELSE seq_nums
    /\ decoded' = Append(decoded, [type |-> msg_type, source_uuid |-> source_uuid])
    /\ UNCHANGED <<seq0, denms, creators, event_type, assigned>>
    /\ UNCHANGED denmOthers

NextDenm ==
    \* the sequence_number arguments tried by the callers ({} is the default None)
    LET SuppliedSeqs == {{}, {7}}
        Terminations ==
            LET isNegation == "isNegation"
            IN  {TermNone, isCancellation, isNegation}
    IN  \/ \E uuid \in Uuids, sn \in SuppliedSeqs, t \in Terminations : DENM(uuid, sn, t)
        \/ \E i \in 1..MaxDenms, t \in Terminations : termination_setter(i, t)

\* a thread enters _get_seq_num(uuid), called by the constructor of a new DENM
get_seq_num_call(t, uuid) ==
    /\ creators[t].pc = "idle"
    /\ Len(creators[t].got) < MaxCreates
    /\ creators' = [creators EXCEPT ![t].pc = "load", ![t].uuid = uuid]
    /\ UNCHANGED <<seq_nums, seq0, denms, decoded, event_type, assigned>>
    /\ UNCHANGED denmOthers

\* "(cls._seq_nums[uuid] + 1) % 65_536" is evaluated, or KeyError is raised;
\* no lock is held and the value is stored by a later step
get_seq_num_load(t) ==
    /\ creators[t].pc = "load"
    /\ creators' = [creators EXCEPT
            ![t].pc = "store",
            ![t].new = IF creators[t].uuid \in DOMAIN seq_nums
                       THEN (seq_nums[creators[t].uuid] + 1) % SeqModulus
                       ELSE 0]
    /\ UNCHANGED <<seq_nums, seq0, denms, decoded, event_type, assigned>>
    /\ UNCHANGED denmOthers

\* "cls._seq_nums[uuid] = ..."
get_seq_num_store(t) ==
    /\ creators[t].pc = "store"
    /\ seq_nums' = [u \in DOMAIN seq_nums \cup {creators[t].uuid} |->
                        IF u = creators[t].uuid THEN creators[t].new ELSE seq_nums[u]]
    /\ creators' = [creators EXCEPT ![t].pc = "return"]
    /\ UNCHANGED <<seq0, denms, decoded, event_type, assigned>>
    /\ UNCHANGED denmOthers

\* "return cls._seq_nums[uuid]"
get_seq_num_return(t) ==
    /\ creators[t].pc = "return"
    /\ creators' = [creators EXCEPT
            ![t].pc = "idle",
            ![t].got = Append(@, [uuid |-> creators[t].uuid,
                                  n |-> seq_nums[creators[t].uuid]])]
    /\ UNCHANGED <<seq_nums, seq0, denms, decoded, event_type, assigned>>
    /\ UNCHANGED denmOthers

NextCreators ==
    \/ \E t \in Threads, uuid \in Uuids : get_seq_num_call(t, uuid)
    \/ \E t \in Threads : get_seq_num_load(t)
    \/ \E t \in Threads : get_seq_num_store(t)
    \/ \E t \in Threads : get_seq_num_return(t)

\* new DENMs are created while received messages are decoded
NextDecode ==
    \/ \E uuid \in Uuids : DENM(uuid, {}, TermNone)
    \/ \E msg_type \in {cam, denm, <<"c", "p", "m">>}, source_uuid \in Uuids :
          message_from_json(msg_type, source_uuid)

(***************************************************************************)
(* Quadkeys                                                                *)
(***************************************************************************)

RECURSIVE KeysOfDepth(_)
KeysOfDepth(n) ==
    \* a quadkey is the string of its digits
    LET Digits == {"0", "1", "2", "3"}
    IN  IF n = 0 THEN {<<>>}
        ELSE {Append(q, d) : q \in KeysOfDepth(n - 1), d \in Digits}

\* the quadkeys given to the operations, the empty one included
QuadKeys == UNION {KeysOfDepth(n) : n \in 0..MaxQkDepth}

\* exceptions, told apart from any string of digits
TypeError == <<"TypeError">>
IndexError == <<"IndexError">>
Raised(x) == x \in {TypeError, IndexError}

EAST_WEST == "0" :> <<"1">> @@ "1" :> <<"0">> @@ "2" :> <<"3">> @@ "3" :> <<"2">>

\* q[:-1] and q[-1]
ButLast(q) == SubSeq(q, 1, Len(q) - 1)
Last(q) == q[Len(q)]

\* None + "2" is a TypeError
Plus(r, d) == IF r = NoneStr \/ Raised(r) THEN TypeError ELSE Append(r, d)

\* QuadKey.__north_of_s(q): the TypeError of None + digit is caught and gives None
RECURSIVE north_of_s(_)
north_of_s(q) ==
    \* QuadKey._NORTH
    LET NORTH == "0" :> NoneStr @@ "1" :> NoneStr @@ "2" :> <<"0">> @@ "3" :> <<"1">>
    IN  IF Len(q) = 1 THEN NORTH[q[1]]
        ELSE IF q = <<>> THEN IndexError
        ELSE IF Last(q) \in {"0", "1"}
             THEN LET n_q == Plus(north_of_s(ButLast(q)), IF Last(q) = "0" THEN "2" ELSE "3")
                  IN IF n_q = TypeError THEN NoneStr ELSE n_q
             ELSE Append(ButLast(q), IF Last(q) = "2" THEN "0" ELSE "1")

\* a move to the south that stays in the parent tile
south_of_s_NoCarry(q) ==
    IF q = <<>> THEN IndexError
    ELSE Append(ButLast(q), CASE Last(q) = "0" -> "2" [] Last(q) = "1" -> "3"
                              [] Last(q) = "2" -> "0" [] Last(q) = "3" -> "1")

\* QuadKey.__south_of_s(q)
RECURSIVE south_of_s(_)
south_of_s(q) ==
    LET SOUTH == "0" :> <<"2">> @@ "1" :> <<"3">> @@ "2" :> NoneStr @@ "3" :> NoneStr
    IN  IF Len(q) = 1 THEN SOUTH[q[1]]
        ELSE IF q = <<>> THEN IndexError
        ELSE IF Last(q) \in {"2", "3"}
             THEN LET s_q == Plus(south_of_s(ButLast(q)), IF Last(q) = "2" THEN "0" ELSE "1")
                  IN IF s_q = TypeError THEN NoneStr ELSE s_q
             ELSE Append(ButLast(q), IF Last(q) = "0" THEN "2" ELSE "3")

\* QuadKey.__west_of_s(q)
RECURSIVE west_of_s(_)
west_of_s(q) ==
    IF Len(q) = 1 THEN EAST_WEST[q[1]]
    ELSE IF q = <<>> THEN IndexError
    ELSE IF Last(q) \in {"0", "2"}
         THEN Plus(west_of_s(ButLast(q)), IF Last(q) = "0" THEN "1" ELSE "3")
         ELSE Append(ButLast(q), IF Last(q) = "1" THEN "0" ELSE "2")

\* a move to the east that stays in the parent tile
east_of_s_NoCarry(q) ==
    IF Len(q) = 1 THEN EAST_WEST[q[1]]
    ELSE IF q = <<>> THEN IndexError
    ELSE Append(ButLast(q), EAST_WEST[Last(q)][1])

\* QuadKey.__east_of_s(q)
RECURSIVE east_of_s(_)
east_of_s(q) ==
    IF Len(q) = 1 THEN EAST_WEST[q[1]]
    ELSE IF q = <<>> THEN IndexError
    ELSE IF Last(q) \in {"1", "3"}
         THEN Plus(east_of_s(ButLast(q)), IF Last(q) = "1" THEN "0" ELSE "2")
         ELSE Append(ButLast(q), IF Last(q) = "0" THEN "1" ELSE "3")

\* the tuple (latitude, longitude, depth) the reporting steps build a QuadKey from
LatLonDepth == <<"(lat, lon, depth)">>

\* QuadKey(quadkey): anything but a str (None and a tuple among them) is a
\* TypeError
QuadKey(quadkey) ==
    IF Raised(quadkey) THEN quadkey
    ELSE IF quadkey \in {NoneStr, LatLonDepth} THEN TypeError
    ELSE quadkey

north_of(q) == QuadKey(north_of_s(q))
south_of(q) == QuadKey(south_of_s(q))
east_of(q) == QuadKey(east_of_s(q))
west_of(q) == QuadKey(west_of_s(q))

\* QuadKey.neighbours(): the namedtuple (NW, N, NE, W, E, SW, S, SE), its
\* fields computed in that order; the first one that raises ends the call
QuadKey_neighbours(q) ==
    LET \* __north_west_of_s and the like: the vertical move applied to the
        \* result of the horizontal one, which wraps and so is never None
        w == west_of_s(q)
        e == east_of_s(q)
        north_west_of == QuadKey(IF Raised(w) THEN w ELSE north_of_s(w))
        north_east_of == QuadKey(IF Raised(e) THEN e ELSE north_of_s(e))
        south_west_of == QuadKey(IF Raised(w) THEN w ELSE south_of_s(w))
        south_east_of == QuadKey(IF Raised(e) THEN e ELSE south_of_s(e))
        nghb == <<north_west_of, north_of(q), north_east_of,
                  west_of(q), east_of(q),
                  south_west_of, south_of(q), south_east_of>>
        bad == {i \in 1..8 : Raised(nghb[i])}
    IN IF bad # {} THEN nghb[CHOOSE i \in bad : \A j \in bad : i <= j]
       ELSE nghb

\* QuadKey.neighbours(as_zone=True): the QuadZone of the fields that are not
\* None; all its keys have the same depth, so QuadZone.add keeps each once
neighbours_as_zone(q) ==
    LET nghb == QuadKey_neighbours(q)
    IN IF Raised(nghb) THEN [exc |-> nghb, quadkeys |-> {}]
       ELSE [exc |-> <<>>, quadkeys |-> {nghb[i] : i \in {j \in 1..8 : nghb[j] # NoneStr}}]

\* QuadKey.make_shallower(depth): the slice is taken with depth itself
make_shallower(q, depth) ==
    IF depth >= 0 THEN SubSeq(q, 1, IF depth < Len(q) THEN depth ELSE Len(q))
    ELSE SubSeq(q, 1, IF Len(q) + depth > 0 THEN Len(q) + depth ELSE 0)

\* QuadKey.to_str(separator)
RECURSIVE to_str(_, _)
to_str(q, separator) ==
    IF Len(q) <= 1 THEN q
    ELSE to_str(ButLast(q), separator) \o separator \o <<Last(q)>>

\* int(q) and str(n) for one digit
int(d) == CHOOSE n \in 0..3 : ToString(n) = d
str(n) == ToString(n)

\* quadtree.is_edgy(direction, q)
is_edgy(direction, q) ==
    int(q) \in (CASE direction = "up" -> {0, 1}
                  [] direction = "right" -> {1, 3}
                  [] direction = "down" -> {2, 3}
                  [] direction = "left" -> {0, 2})

\* quadtree.get_up_or_down(q), quadtree.get_right_or_left(q)
get_up_or_down(q) == str((int(q) + 2) % 4)
get_right_or_left(q) ==
    IF int(q) % 2 = 0 THEN str((int(q) + 1) % 4) ELSE str((int(q) - 1) % 4)

\* the loop of quadtree.get_neighbour, from the last digit to the first:
\* a digit is changed while the edge is crossed, the digits before are kept
RECURSIVE get_neighbour_loop(_, _, _)
get_neighbour_loop(quadtree, direction, edge_crossed) ==
    IF quadtree = <<>> \/ ~edge_crossed THEN quadtree
    ELSE Append(get_neighbour_loop(ButLast(quadtree), direction,
                                   is_edgy(direction, Last(quadtree))),
                IF direction \in {"up", "down"} THEN get_up_or_down(Last(quadtree))
                ELSE get_right_or_left(Last(quadtree)))

\* quadtree.get_neighbour(quadtree, direction)
get_neighbour(quadtree, direction) == get_neighbour_loop(quadtree, direction, TRUE)

InitQk ==
    /\ qkOp = "none"
    /\ qkIn = <<>>
    /\ qkArg = 0
    /\ qkOut = <<>>

\* q.north_of()
call_north_of(q) ==
    /\ qkOp = "none"
    /\ qkOp' = "north_of"
    /\ qkIn' = q
    /\ qkArg' = 0
    /\ qkOut' = north_of(q)
    /\ UNCHANGED qkOthers

\* q.south_of()
call_south_of(q) ==
    /\ qkOp = "none"
    /\ qkOp' = "south_of"
    /\ qkIn' = q
    /\ qkArg' = 0
    /\ qkOut' = south_of(q)
    /\ UNCHANGED qkOthers

\* q.east_of()
call_east_of(q) ==
    /\ qkOp = "none"
    /\ qkOp' = "east_of"
    /\ qkIn' = q
    /\ qkArg' = 0
    /\ qkOut' = east_of(q)
    /\ UNCHANGED qkOthers

\* q.west_of()
call_west_of(q) ==
    /\ qkOp = "none"
    /\ qkOp' = "west_of"
    /\ qkIn' = q
    /\ qkArg' = 0
    /\ qkOut' = west_of(q)
    /\ UNCHANGED qkOthers

\* q.neighbours()
call_neighbours(q) ==
    /\ qkOp = "none"
    /\ qkOp' = "neighbours"
    /\ qkIn' = q
    /\ qkArg' = 0
    /\ qkOut' = QuadKey_neighbours(q)
    /\ UNCHANGED qkOthers

\* quadtree.get_neighbour(q, direction)
call_get_neighbour(q, direction) ==
    /\ qkOp = "none"
    /\ qkOp' = direction
    /\ qkIn' = q
    /\ qkArg' = 0
    /\ qkOut' = get_neighbour(q, direction)
    /\ UNCHANGED qkOthers

\* q.make_shallower(depth)
call_make_shallower(q, depth) ==
    /\ qkOp = "none"
    /\ qkOp' = "make_shallower"
    /\ qkIn' = q
    /\ qkArg' = depth
    /\ qkOut' = make_shallower(q, depth)
    /\ UNCHANGED qkOthers

NextQk ==
    LET Directions == {"up", "down", "left", "right"}
    IN  \/ \E q \in QuadKeys, depth \in (0 - MaxQkDepth - 1)..(MaxQkDepth + 1) :
                call_make_shallower(q, depth)
        \/ \E q \in QuadKeys : call_north_of(q)
        \/ \E q \in QuadKeys : call_south_of(q)
        \/ \E q \in QuadKeys : call_east_of(q)
        \/ \E q \in QuadKeys : call_west_of(q)
        \/ \E q \in QuadKeys : call_neighbours(q)
        \/ \E q \in QuadKeys, direction \in Directions : call_get_neighbour(q, direction)

(***************************************************************************)
(* Region of interest and the reporting step                               *)
(***************************************************************************)

\* the speeds the positions are reported with
Speeds == {0, 10, 11, 20, 21}

\* RegionOfInterest(depths=..., speeds=...): the configured depth per message
\* type and the speed thresholds
depths == (cam :> 3) @@ (denm :> 2)
speeds == <<10, 20>>

\* RegionOfInterest.get, "for s in self.speeds" from the i-th threshold on
RECURSIVE DepthLoop(_, _, _)
DepthLoop(speed, depth, i) ==
    IF i > Len(speeds) THEN depth
    ELSE IF speed < speeds[i] \/ depth = 1 THEN depth
    ELSE DepthLoop(speed, depth - 1, i + 1)

\* RegionOfInterest.get(quadkey, speed, msg_type): the depth, then the shallow
\* tile and the zone of its neighbours, to which the tile itself is added
RegionOfInterest_get(quadkey, speed, msg_type) ==
    LET depth == DepthLoop(speed, depths[msg_type], 1)
        shallow == make_shallower(quadkey, depth)
        roi == neighbours_as_zone(shallow)
    IN [depth |-> depth,
        exc |-> roi.exc,
        roi |-> IF roi.exc # <<>> THEN {} ELSE roi.quadkeys \cup {shallow}]

\* "self.roi.get(quadkey=quadkey, speed=gnss_report.speed, msg_type=msg_type)"
\* with the speed of a GNSS report, a number or None: None is compared to the
\* first threshold, and "speed < s" raises TypeError; with no threshold the
\* speed is not looked at
roi_get(quadkey, gnss_report, msg_type) ==
    IF gnss_report.speed # None
    THEN RegionOfInterest_get(quadkey, gnss_report.speed.v, msg_type)
    ELSE IF speeds # <<>>
    THEN [depth |-> depths[msg_type], exc |-> TypeError, roi |-> {}]
    ELSE RegionOfInterest_get(quadkey, 0, msg_type)

\* ITSClient._loop: the topic subscribed to for one tile of the RoI
roi_topic(msg_type, qk) ==
    LET sub_prefix == <<"s", "/">>
    IN  sub_prefix \o msg_type \o <<"/", "+", "/">> \o to_str(QuadKey(qk), <<"/">>) \o <<"/", "#">>

InitRoi ==
    /\ roiCall = [msg_type |-> <<>>, quadkey |-> <<>>, speed |-> 0,
                  depth |-> 0, exc |-> <<>>, roi |-> {}]
    /\ stepRes = [r \in {"its_vehicle", "iot3"} |-> "none"]
    /\ worker = [pc |-> "idle", publish |-> "none", step |-> 0,
                 zoom_base |-> (cam :> 0) @@ (denm :> 0)]
    /\ log = [r \in {"its_vehicle", "iot3", "its_client"} |-> <<>>]

\* roi.get(quadkey=..., speed=..., msg_type=...)
call_get(quadkey, speed, msg_type) ==
    /\ roiCall' = [msg_type |-> msg_type, quadkey |-> quadkey, speed |-> speed]
                    @@ RegionOfInterest_get(quadkey, speed, msg_type)
    /\ UNCHANGED <<stepRes, worker, log>>
    /\ UNCHANGED roiOthers

\* ITSClient._loop, one iteration with a GNSS report: the tile of the
\* position, the RoI topics of every message type, subscribe_replace, then
\* publish; an exception ends the thread
loop_step(gnss_report) ==
    /\ stepRes["its_vehicle"] # "raised"
    /\ LET quadkey == QuadKey(LatLonDepth)
           got == [T \in {cam, denm} |-> roi_get(quadkey, gnss_report, T)]
           roi_topics == UNION {{roi_topic(T, qk) : qk \in got[T].roi} : T \in {cam, denm}}
       IN IF Raised(quadkey) \/ \E T \in {cam, denm} : got[T].exc # <<>>
          THEN /\ stepRes' = [stepRes EXCEPT !["its_vehicle"] = "raised"]
               /\ UNCHANGED log
          ELSE /\ stepRes' = [stepRes EXCEPT !["its_vehicle"] = "done"]
               /\ log' = [log EXCEPT !["its_vehicle"] =
                            <<[e |-> "sub", step |-> 1, topics |-> roi_topics],
                              [e |-> "pub", step |-> 1, topics |-> {}]>>]
    /\ UNCHANGED <<roiCall, worker>>
    /\ UNCHANGED roiOthers

\* iot3.mobility.send_position: the tile of the position, its neighbours and
\* itself subscribed to for the DENMs, then the CAM published; an exception
\* goes to the caller
send_position ==
    /\ LET quadkey == QuadKey(LatLonDepth)
           roi == neighbours_as_zone(quadkey)
       IN IF Raised(quadkey) \/ roi.exc # <<>>
          THEN /\ stepRes' = [stepRes EXCEPT !["iot3"] = "raised"]
               /\ UNCHANGED log
          ELSE /\ stepRes' = [stepRes EXCEPT !["iot3"] = "done"]
               /\ log' = [log EXCEPT !["iot3"] =
                            <<[e |-> "sub", step |-> 1,
                               topics |-> {roi_topic(denm, qk) : qk \in roi.quadkeys \cup {quadkey}}],
                              [e |-> "pub", step |-> 1, topics |-> {}]>>]
    /\ UNCHANGED <<roiCall, worker>>
    /\ UNCHANGED roiOthers

\* MqttWorker.step up to "publish.start()": the thread that publishes the CAM
\* is started before the region of interest is looked at
step_start ==
    /\ worker.pc = "idle"
    /\ worker.step < MaxSteps
    /\ worker' = [worker EXCEPT !.pc = "started", !.publish = "started", !.step = @ + 1]
    /\ UNCHANGED <<roiCall, stepRes, log>>
    /\ UNCHANGED roiOthers

\* the publish thread: self.mqtt_client.publish(cam_topic, json_cam)
publish_thread ==
    /\ worker.publish = "started"
    /\ worker' = [worker EXCEPT !.publish = "done"]
    /\ log' = [log EXCEPT !["its_client"] =
                Append(@, [e |-> "pub", step |-> worker.step, topics |-> {}])]
    /\ UNCHANGED <<roiCall, stepRes>>
    /\ UNCHANGED roiOthers

\* MqttWorker.step, "self.region.update_subscription(...)": the zoom level of
\* each message type follows the speed and the subscriptions follow the tile
update_subscription(speed) ==
    LET ZOOM_BASE_DENM == 15
        ZOOM_BASE_CAM == 18
        \* RegionOfInterest._correct_zoom_level(speed, level_of_detail)
        correct_zoom_level(level_of_detail) ==
            IF speed > 135 THEN level_of_detail - 2
            ELSE IF speed > 95 THEN level_of_detail - 1
            ELSE level_of_detail
    IN  /\ worker.pc = "started"
        /\ worker' = [worker EXCEPT !.pc = "updated",
                        !.zoom_base = (cam :> correct_zoom_level(ZOOM_BASE_CAM))
                                      @@ (denm :> correct_zoom_level(ZOOM_BASE_DENM))]
        /\ log' = [log EXCEPT !["its_client"] =
                    Append(@, [e |-> "sub", step |-> worker.step, topics |-> {}])]
        /\ UNCHANGED <<roiCall, stepRes>>
        /\ UNCHANGED roiOthers

\* MqttWorker.step, "publish.join()" and the return
step_join ==
    /\ worker.pc = "updated"
    /\ worker.publish = "done"
    /\ worker' = [worker EXCEPT !.pc = "idle", !.publish = "none"]
    /\ UNCHANGED <<roiCall, stepRes, log>>
    /\ UNCHANGED roiOthers

\* the region of interest of a tile, a speed and a message type
NextRoi ==
    \E quadkey \in KeysOfDepth(MaxQkDepth), speed \in Speeds, msg_type \in {cam, denm} :
        call_get(quadkey, speed, msg_type)

\* the reporting steps of the three clients
NextStep ==
    \/ \E speed \in {PyInt(v) : v \in Speeds} \cup {None} :
            \* GNSSReport(..., speed=tpv.get("speed", None), ...)
            loop_step([speed |-> speed])
    \/ send_position
    \/ step_start
    \/ publish_thread
    \/ \E speed \in Speeds \cup {95, 96, 135, 136} : update_subscription(speed)
    \/ step_join

(***************************************************************************)
(* Zones of quadkeys                                                       *)
(***************************************************************************)

\* the zones given to the operations: at most MaxZoneSize keys among the
\* tiles of depth 1, the tiles below 0 and 1, and the tiles below 12
Zones ==
    LET under(q) == {Append(q, d) : d \in {"0", "1", "2", "3"}}
        keys == KeysOfDepth(1) \cup under(<<"0">>) \cup under(<<"1">>) \cup under(<<"1", "2">>)
    IN  {z \in SUBSET keys : Cardinality(z) <= MaxZoneSize}

\* a key that contains nothing
QuadKey_contains_Nothing(quadkey, other) == FALSE

\* QuadKey.__contains__(other): other starts with this key
QuadKey_contains(quadkey, other) ==
    /\ Len(quadkey) <= Len(other)
    /\ SubSeq(other, 1, Len(quadkey)) = quadkey

\* QuadZone.__contains__(other)
QuadZone_contains(quadkeys, other) ==
    \E quadkey \in quadkeys : QuadKey_contains(quadkey, other)

\* QuadZone.optimise(): the sorted keys are merged, pass after pass, until a
\* pass leaves their number as it was
QuadZone_optimise(quadkeys) ==
    LET \* the order of str
        Lt(a, b) ==
            \E i \in 1..Len(b) :
                /\ \A j \in 1..(i - 1) : j <= Len(a) /\ a[j] = b[j]
                /\ i > Len(a) \/ int(a[i]) < int(b[i])
        RECURSIVE sorted(_)
        sorted(S) ==
            IF S = {} THEN <<>>
            ELSE LET first == CHOOSE x \in S : \A y \in S \ {x} : Lt(x, y)
                 IN <<first>> \o sorted(S \ {first})
        \* "while to_merge"
        RECURSIVE Pass(_, _)
        Pass(to_merge, new_quadkeys) ==
            IF to_merge = <<>> THEN new_quadkeys
            ELSE LET quadkey == Head(to_merge)
                     rest == Tail(to_merge)
                     root == make_shallower(quadkey, -1)
                 IN IF new_quadkeys # <<>>
                       /\ QuadKey_contains(new_quadkeys[Len(new_quadkeys)], quadkey)
                    THEN Pass(rest, new_quadkeys)
                    ELSE IF Len(rest) < 3
                    THEN Pass(rest, Append(new_quadkeys, quadkey))
                    ELSE IF /\ rest[1] = Append(root, "1")
                            /\ rest[2] = Append(root, "2")
                            /\ rest[3] = Append(root, "3")
                    THEN Pass(SubSeq(rest, 4, Len(rest)), Append(new_quadkeys, root))
                    ELSE Pass(rest, Append(new_quadkeys, quadkey))
        \* "while prev_nb_qk > len(new_quadkeys)"
        RECURSIVE Passes(_, _)
        Passes(new_quadkeys, prev_nb_qk) ==
            IF prev_nb_qk > Len(new_quadkeys)
            THEN Passes(Pass(new_quadkeys, <<>>), Len(new_quadkeys))
            ELSE new_quadkeys
        result == Passes(sorted(quadkeys), Cardinality(quadkeys) + 1)
    IN {result[i] : i \in 1..Len(result)}

\* QuadZone.neighbours(depth): the neighbours of every key brought to the
\* depth asked for, less those the zone contains, or the exception raised;
\* the keys added to a zone here all have that depth, so that QuadZone.add
\* keeps each of them once
QuadZone_neighbours(quadkeys, depth) ==
    LET \* _mk_tail_s(what, depth=n)
        TAILS_FOR == <<{"3"}, {"2", "3"}, {"2"}, {"1", "3"}, {"0", "2"}, {"1"}, {"0", "1"}, {"0"}>>
        RECURSIVE mk_tail_s(_, _)
        mk_tail_s(card, n) ==
            IF n = 0 THEN {<<>>}
            ELSE {Append(t, d) : t \in mk_tail_s(card, n - 1), d \in TAILS_FOR[card]}
        of(quadkey) ==
            LET nghbs == QuadKey_neighbours(quadkey)
            IN IF Raised(nghbs) THEN {nghbs}
               ELSE IF Len(quadkey) >= depth
               THEN {make_shallower(nghbs[card], depth) : card \in 1..8}
               ELSE UNION {{nghbs[card] \o tail : tail \in mk_tail_s(card, depth - Len(quadkey))}
                            : card \in 1..8}
        all_nghbs == UNION {of(quadkey) : quadkey \in quadkeys}
    IN IF \E q \in all_nghbs : Raised(q) THEN [exc |-> TypeError, quadkeys |-> {}]
       ELSE [exc |-> <<>>,
             quadkeys |-> {quadkey \in all_nghbs : ~QuadZone_contains(quadkeys, quadkey)}]

\* zone.optimise(), on a zone made for the call; one call is observed
call_optimise ==
    /\ qkOp = "none"
    /\ \E zone \in Zones :
        /\ qkOp' = "optimise"
        /\ qkIn' = zone
        /\ qkArg' = 0
        /\ qkOut' = QuadZone_optimise(zone)
    /\ UNCHANGED qkOthers

\* zone.neighbours(depth), on a zone made for the call; one call is observed
call_zone_neighbours ==
    /\ qkOp = "none"
    /\ \E zone \in Zones, depth \in 1..MaxQkDepth :
        /\ qkOp' = "zone_neighbours"
        /\ qkIn' = zone
        /\ qkArg' = depth
        /\ qkOut' = QuadZone_neighbours(zone, depth)
    /\ UNCHANGED qkOthers

NextZone == call_optimise \/ call_zone_neighbours

(***************************************************************************)
(* ETSI codec: conversions between SI values and ETSI integers, ETSI time  *)
(***************************************************************************)

\* SI values are counted in quanta; a scale is a whole number of quanta, so
\* that value / scale is an exact fraction and a half is representable
IntValue(n) == [t |-> "int", v |-> n]

AttributeError == [t |-> "AttributeError"]

\* the arguments of a conversion
EtsiArgs ==
    LET SIValues == {None} \cup {IntValue(n) : n \in (0 - MaxSI)..MaxSI}
        Scales == {1, 2}
        Sentinels == {None, IntValue(0), IntValue(3)}
        ValidityRanges == {None, [min |-> 0 - 1, max |-> 1]}
    IN  [value : SIValues, scale : Scales, undef : Sentinels,
         validity_range : ValidityRanges, out_of_range : {None, IntValue(2)}]

\* round(): to the nearest integer, a half to the even neighbour
round(value, scale) ==
    LET q == value \div scale
        r == value % scale
    IN  IF 2 * r < scale THEN q
        ELSE IF 2 * r > scale THEN q + 1
        ELSE IF q % 2 = 0 THEN q ELSE q + 1

si2etsi_Unclamped(value, scale, undef, validity_range, out_of_range) ==
    IF value = None
    THEN IF undef = None THEN AttributeError ELSE undef
    ELSE IntValue(round(value.v, scale))

si2etsi(value, scale, undef, validity_range, out_of_range) ==
    IF value = None
    THEN IF undef = None THEN AttributeError ELSE undef
    ELSE LET etsi_value == round(value.v, scale)
             above_min ==
                 IF validity_range # None /\ etsi_value < validity_range.min
                 THEN IF out_of_range # None THEN out_of_range.v
                      ELSE validity_range.min
                 ELSE etsi_value
             below_max ==
                 IF validity_range # None /\ above_min > validity_range.max
                 THEN IF out_of_range # None THEN out_of_range.v
                      ELSE validity_range.max
                 ELSE above_min
         IN  IntValue(below_max)

etsi2si(value, scale, undef, out_of_range) ==
    IF undef # None /\ value = undef THEN None
    ELSE IF out_of_range # None /\ value = out_of_range THEN None
    ELSE IntValue(value.v * scale)

\* its-vehicle: no validity range
do_convert(value, scale, undef) ==
    IF value = None THEN undef ELSE IntValue(round(value.v, scale))

\* a count of milliseconds is kept as whole seconds and milliseconds: the
\* counts since 2004 exceed 2^31
Mod65536(etsi_time) == (((etsi_time.s % 65536) * 1000) + etsi_time.ms) % 65536

dTAI_UTC_from_utc_Fixed(utc_time) == 32

\* the leap seconds in force since 1999, as UNIX times of the UTC dates
dTAI_UTC_from_utc(utc_time) ==
    LET LeapSeconds == <<[utc |-> 915148800, dTAI_UTC |-> 32],
                         [utc |-> 1136073600, dTAI_UTC |-> 33],
                         [utc |-> 1230768000, dTAI_UTC |-> 34],
                         [utc |-> 1341100800, dTAI_UTC |-> 35],
                         [utc |-> 1435708800, dTAI_UTC |-> 36],
                         [utc |-> 1483228800, dTAI_UTC |-> 37]>>
        i == CHOOSE k \in DOMAIN LeapSeconds :
                 /\ LeapSeconds[k].utc <= utc_time
                 /\ k < Len(LeapSeconds) => utc_time < LeapSeconds[k + 1].utc
    IN  LeapSeconds[i].dTAI_UTC

\* datetime.timestamp() of a naive datetime reads it in the local time zone tz
unix2etsi_time(unix_time, tz) ==
    LET ParisSummer == {<<1174791600, 1193540400>>, <<1711854000, 1729998000>>}
        utcoffset(naive) ==
            IF tz = "UTC" THEN 0
            ELSE IF \E w \in ParisSummer : w[1] <= naive /\ naive < w[2]
                 THEN 7200 ELSE 3600
        timestamp(naive) == naive - utcoffset(naive)
        utc_to_tai(utc_time) == utc_time + dTAI_UTC_from_utc(utc_time)
        EPOCH == timestamp(utc_to_tai(1072915200))
    IN  [s |-> timestamp(utc_to_tai(unix_time.s)) - EPOCH, ms |-> unix_time.ms]

generation_delta_time(unix_time, tz) == Mod65536(unix2etsi_time(unix_time, tz))

\* its-vehicle: the epoch is a UTC date and no leap second is counted
vehicle_generation_delta_time(ts) ==
    LET VEHICLE_EPOCH == 1072915200
    IN  Mod65536([s |-> ts.s - VEHICLE_EPOCH, ms |-> ts.ms])

\* its_client: TIMESTAMP_ITS_START is 1072915195000 ms
cam_generation_delta_time(ts) ==
    LET TIMESTAMP_ITS_START == [s |-> 1072915195, ms |-> 0]
    IN  Mod65536([s |-> ts.s - TIMESTAMP_ITS_START.s, ms |-> ts.ms])

UnixTimes ==
    LET Instants == {1072915200, 1136073599, 1136073600, 1167609600,
                     1183248000, 1483228799, 1483228800, 1704110400,
                     1719835200}
    IN  {[s |-> s, ms |-> ms] : s \in Instants, ms \in {0, 999}}

call_si2etsi ==
    /\ qkOp = "none"
    /\ \E a \in EtsiArgs :
        /\ qkOp' = "si2etsi"
        /\ qkIn' = a
        /\ qkArg' = 0
        /\ qkOut' = si2etsi(a.value, a.scale, a.undef, a.validity_range,
                            a.out_of_range)
    /\ UNCHANGED qkOthers

\* its-vehicle: the callers give undef, and no range can be given
call_do_convert ==
    /\ qkOp = "none"
    /\ \E a \in EtsiArgs :
        /\ a.undef # None
        /\ a.validity_range = None
        /\ a.out_of_range = None
        /\ qkOp' = "do_convert"
        /\ qkIn' = a
        /\ qkArg' = 0
        /\ qkOut' = do_convert(a.value, a.scale, a.undef)
    /\ UNCHANGED qkOthers

\* etsi2si(si2etsi(x, s, undef=U), s, undef=U); a failure of si2etsi ends it
call_round_trip ==
    /\ qkOp = "none"
    /\ \E a \in EtsiArgs :
        LET etsi_value == si2etsi(a.value, a.scale, a.undef, None, None)
        IN  /\ a.validity_range = None
            /\ a.out_of_range = None
            /\ qkOp' = "round_trip"
            /\ qkIn' = a
            /\ qkArg' = 0
            /\ qkOut' = IF etsi_value = AttributeError THEN AttributeError
                        ELSE etsi2si(etsi_value, a.scale, a.undef, None)
    /\ UNCHANGED qkOthers

call_generation_delta_time ==
    /\ qkOp = "none"
    /\ \E unix_time \in UnixTimes, tz \in {"UTC", "Europe/Paris"} :
        /\ qkOp' = "generation_delta_time"
        /\ qkIn' = [unix_time |-> unix_time, tz |-> tz,
                    etsi_time |-> unix2etsi_time(unix_time, tz)]
        /\ qkArg' = 0
        /\ qkOut' = generation_delta_time(unix_time, tz)
    /\ UNCHANGED qkOthers

call_vehicle_generation_delta_time ==
    /\ qkOp = "none"
    /\ \E ts \in UnixTimes :
        /\ qkOp' = "vehicle_generation_delta_time"
        /\ qkIn' = [unix_time |-> ts]
        /\ qkArg' = 0
        /\ qkOut' = vehicle_generation_delta_time(ts)
    /\ UNCHANGED qkOthers

call_cam_generation_delta_time ==
    /\ qkOp = "none"
    /\ \E ts \in UnixTimes :
        /\ qkOp' = "cam_generation_delta_time"
        /\ qkIn' = [unix_time |-> ts]
        /\ qkArg' = 0
        /\ qkOut' = cam_generation_delta_time(ts)
    /\ UNCHANGED qkOthers

NextEtsi ==
    \/ call_si2etsi
    \/ call_do_convert
    \/ call_round_trip
    \/ call_generation_delta_time
    \/ call_vehicle_generation_delta_time
    \/ call_cam_generation_delta_time

(***************************************************************************)
(* Cause and sub-cause of a DENM                                           *)
(***************************************************************************)

\* DENM.Cause, by name, for the causes assigned here
Causes == {"reserved", "trafficCondition", "accident", "wrongWayDriving",
           "dangerousSituation"}

\* DENM.SubCause: the values of the members of the variant of each cause;
\* there is no variant for Cause.reserved
SubCause ==
    [c \in Causes \ {"reserved"} |->
        CASE c = "trafficCondition" -> 0..8
          [] c = "accident" -> 0..8
          [] c = "wrongWayDriving" -> 0..2
          [] c = "dangerousSituation" -> 0..7]

\* an exception raised by an accessor
ValueError == [t |-> "ValueError"]

\* "denm.cause = cause": only the "cause" entry is written
cause_setter(cause) ==
    /\ event_type' = [event_type EXCEPT !.cause = cause]
    /\ assigned' = [assigned EXCEPT !.raised = NoneStr]
    /\ UNCHANGED <<seq_nums, seq0, denms, decoded, creators>>
    /\ UNCHANGED denmOthers

\* "denm.subcause = subcause", subcause being None or the member of value
\* subcause.value of the variant subcause.variant
subcause_setter(subcause) ==
    /\ IF subcause = None
       THEN /\ event_type' = [event_type EXCEPT !.subcause = {}]
            /\ assigned' = [variant |-> NoneStr, raised |-> NoneStr]
       ELSE IF event_type.cause \notin DOMAIN SubCause
       THEN \* getattr(self.SubCause, cause_name)
            /\ assigned' = [assigned EXCEPT !.raised = AttributeError]
            /\ UNCHANGED event_type
       ELSE IF subcause.variant # event_type.cause
       THEN \* not isinstance(subcause, SubCauseClass)
            /\ assigned' = [assigned EXCEPT !.raised = ValueError]
            /\ UNCHANGED event_type
       ELSE /\ event_type' = [event_type EXCEPT !.subcause = {subcause.value}]
            /\ assigned' = [variant |-> subcause.variant, raised |-> NoneStr]
    /\ UNCHANGED <<seq_nums, seq0, denms, decoded, creators>>
    /\ UNCHANGED denmOthers

\* "denm.subcause" read on an event type: None, the member of the variant of
\* the current cause that has the stored value, or the exception raised
subcause_getter(et) ==
    IF et.subcause = {} THEN None
    ELSE IF et.cause \notin DOMAIN SubCause THEN AttributeError
    ELSE LET subcause == CHOOSE v \in et.subcause : TRUE
         IN  IF subcause \in SubCause[et.cause]
             THEN [variant |-> et.cause, value |-> subcause]
             ELSE ValueError

NextCause ==
    \* the members given to the setter
    LET Members == {[variant |-> c, value |-> v] :
                        c \in DOMAIN SubCause, v \in {0, 2, 7, 8}}
        Given == {m \in Members : m.value \in SubCause[m.variant]}
    IN  \/ \E cause \in Causes : cause_setter(cause)
        \/ \E subcause \in Given \cup {None} : subcause_setter(subcause)

(***************************************************************************)
(* GNSS caches                                                             *)
(***************************************************************************)

InitGnss ==
    /\ clock = 0
    /\ gnss_last = <<>>
    /\ gpsd_data = None
    /\ gnss_got = [cache |-> "none", now |-> 0, report |-> None]

\* time passes while no thread runs
time_passes ==
    /\ clock < MaxSeconds
    /\ clock' = clock + 1
    /\ UNCHANGED <<gnss_last, gpsd_data, gnss_got>>
    /\ UNCHANGED gnssOthers

\* iot3 GNSS._loop, one message of gpsd of class "tpv" or "att"; has_lat_lon
\* tells whether the message has both "lat" and "lon"
GNSS_loop(msg_class, has_lat_lon) ==
    /\ gnss_last' = [c \in DOMAIN gnss_last \cup {msg_class} |->
                        IF c = msg_class
                        THEN [timestamp |-> clock, msg |-> has_lat_lon]
                        ELSE gnss_last[c]]
    /\ UNCHANGED <<clock, gpsd_data, gnss_got>>
    /\ UNCHANGED gnssOthers

\* iot3 GNSS.__call__: None with no TPV yet, with a TPV stored more than one
\* second ago, or with a TPV that lacks a latitude or a longitude
GNSS_call ==
    /\ gnss_got' =
        [cache |-> "iot3", now |-> clock,
         report |-> IF "tpv" \notin DOMAIN gnss_last THEN None
                    ELSE IF clock - gnss_last["tpv"].timestamp > 1
                    THEN None
                    ELSE IF ~gnss_last["tpv"].msg THEN None
                    ELSE [timestamp |-> gnss_last["tpv"].timestamp]]
    /\ UNCHANGED <<clock, gnss_last, gpsd_data>>
    /\ UNCHANGED gnssOthers

\* its-vehicle GNSSProvider._set_data, at the end of an epoch of gpsd: the
\* report is made of the TPV and stamped with time.time()
set_data(has_lat_lon) ==
    /\ gpsd_data' = [timestamp |-> clock, latitude |-> has_lat_lon]
    /\ UNCHANGED <<clock, gnss_last, gnss_got>>
    /\ UNCHANGED gnssOthers

\* its-vehicle GNSSProvider._disconnect, after an error of the connection to
\* gpsd or at the end of the thread
disconnect ==
    /\ gpsd_data' = None
    /\ UNCHANGED <<clock, gnss_last, gnss_got>>
    /\ UNCHANGED gnssOthers

\* its-vehicle GNSSProvider.get, "return self.data", as used by
\* ITSClient._loop, which skips a report with no latitude
GNSSProvider_get ==
    /\ gnss_got' =
        [cache |-> "its_vehicle", now |-> clock,
         report |-> IF gpsd_data = None THEN None
                    ELSE IF ~gpsd_data.latitude THEN None
                    ELSE [timestamp |-> gpsd_data.timestamp]]
    /\ UNCHANGED <<clock, gnss_last, gpsd_data>>
    /\ UNCHANGED gnssOthers

NextGnss ==
    \/ time_passes
    \/ \E msg_class \in {"tpv", "att"}, has_lat_lon \in BOOLEAN :
            GNSS_loop(msg_class, has_lat_lon)
    \/ GNSS_call
    \/ \E has_lat_lon \in BOOLEAN : set_data(has_lat_lon)
    \/ disconnect
    \/ GNSSProvider_get

(***************************************************************************)
(* Telemetry exporter                                                      *)
(***************************************************************************)

\* Otel(max_backlog=...), 1023 by default: the exporter is configured with a
\* smaller backlog
max_backlog == MaxBacklog

\* "self.queue = queue.Queue(maxsize=2 * self.max_backlog)"
maxsize == 2 * max_backlog

InitOtel ==
    /\ span_queue = <<>>
    /\ spans = <<>>
    /\ otel_run = [pc |-> "get", i |-> 0]
    /\ offered = 0
    /\ exported = [span |-> 0, before |-> <<>>, after |-> <<>>]

\* a put that makes room for the new span by dropping the oldest one
export_span_DropsOldest(span) ==
    /\ span = offered + 1
    /\ offered < MaxOffered
    /\ offered' = span
    /\ span_queue' = IF Len(span_queue) < maxsize THEN Append(span_queue, span)
                     ELSE Append(Tail(span_queue), span)
    /\ exported' = [span |-> span, before |-> span_queue, after |-> span_queue']
    /\ UNCHANGED <<spans, otel_run>>
    /\ UNCHANGED otelOthers

\* Otel.export_span(span=span): "self.queue.put(span, block=False)" returns
\* at once; queue.Full is caught and the span is forgotten
export_span(span) ==
    /\ span = offered + 1
    /\ offered < MaxOffered
    /\ offered' = span
    /\ span_queue' = IF Len(span_queue) < maxsize THEN Append(span_queue, span)
                     ELSE span_queue
    /\ exported' = [span |-> span, before |-> span_queue, after |-> span_queue']
    /\ UNCHANGED <<spans, otel_run>>
    /\ UNCHANGED otelOthers

\* Otel._send: with r.ok the backlog starts afresh, otherwise the spans are
\* kept; in both cases at most max_backlog of them, the latest ones
send(backlog, ok) ==
    IF backlog = <<>> THEN backlog
    ELSE IF ok THEN <<>>
    ELSE IF Len(backlog) <= max_backlog THEN backlog
    ELSE SubSeq(backlog, Len(backlog) - max_backlog + 1, Len(backlog))

\* Otel._run, "span = self.queue.get(timeout=timeout)" with no batch_period:
\* the thread waits for a span, then starts draining the queue
run_get ==
    /\ otel_run.pc = "get"
    /\ span_queue # <<>>
    /\ span_queue' = Tail(span_queue)
    /\ spans' = Append(spans, Head(span_queue))
    /\ otel_run' = [pc |-> "drain", i |-> 0]
    /\ UNCHANGED <<offered, exported>>
    /\ UNCHANGED otelOthers

\* Otel._run, one turn of "for i in range(2 * self.max_backlog)": a span is
\* taken without waiting; at the end of the range or on queue.Empty, the
\* spans are sent when there are max_backlog of them or more, ok telling
\* whether the collector took them
run_drain(ok) ==
    /\ otel_run.pc = "drain"
    /\ IF otel_run.i < 2 * max_backlog /\ span_queue # <<>>
       THEN /\ span_queue' = Tail(span_queue)
            /\ spans' = Append(spans, Head(span_queue))
            /\ otel_run' = [otel_run EXCEPT !.i = @ + 1]
       ELSE /\ spans' = IF Len(spans) >= max_backlog THEN send(spans, ok) ELSE spans
            /\ otel_run' = [pc |-> "get", i |-> 0]
            /\ UNCHANGED span_queue
    /\ UNCHANGED <<offered, exported>>
    /\ UNCHANGED otelOthers

NextOtel ==
    \/ \E span \in 1..MaxOffered : export_span(span)
    \/ run_get
    \/ \E ok \in BOOLEAN : run_drain(ok)

(***************************************************************************)
(* Inter-Queue Manager: shutdown                                           *)
(***************************************************************************)

\* run_forever sleeps once the authority is started
InitMain ==
    main = [pc |-> "sleep", size |-> 0, seen |-> {}, exc |-> NoneStr]

\* run_forever, KeyboardInterrupt or InterruptedError: the sleep ends and
\* "for nghb_id in self.neighbours" begins, while the authority is still
\* running
interrupt ==
    /\ main.pc = "sleep"
    /\ main' = [main EXCEPT !.pc = "stopping",
                            !.size = Cardinality(DOMAIN neighbours)]
    /\ UNCHANGED nghbVars
    /\ UNCHANGED iqmOthers

\* run_forever, one round of "for nghb_id in self.neighbours:
\* self.neighbours_clients[nghb_id].stop()": the iterator raises RuntimeError
\* when the dict has changed size, the lookup raises KeyError for an id with
\* no client; after the last id, "self.authority.stop()"
run_forever_stop ==
    /\ main.pc = "stopping"
    /\ IF Cardinality(DOMAIN neighbours) # main.size
       THEN /\ main' = [main EXCEPT !.pc = "raised", !.exc = <<"RuntimeError">>]
            /\ UNCHANGED running
       ELSE IF DOMAIN neighbours \subseteq main.seen
       THEN \* the authority thread of paho is joined by loop_stop(); the file
            \* and http authorities have an empty stop()
            /\ authority = "mqtt" => upc # "update_cb"
            /\ main' = [main EXCEPT !.pc = "stopped"]
            /\ UNCHANGED running
       ELSE \E nghb_id \in DOMAIN neighbours \ main.seen :
                IF nghb_id \in DOMAIN neighbours_clients
                THEN /\ running' = running \ {<<nghb_id, neighbours_clients[nghb_id].desc>>}
                     /\ main' = [main EXCEPT !.seen = @ \cup {nghb_id}]
                ELSE /\ main' = [main EXCEPT !.pc = "raised", !.exc = <<"KeyError">>]
                     /\ UNCHANGED running
    /\ UNCHANGED <<authority, lastLoad, loaded, neighbours, neighbours_clients,
                   upc, todoStop, todoStart, stopped, started, cur0, run0>>
    /\ UNCHANGED iqmOthers

\* the authority delivers directories and update_cb runs until the authority
\* is stopped; the main thread is interrupted at any time
NextShutdown ==
    \/ /\ main.pc # "stopped" \/ authority # "mqtt"
       /\ NextNghb
    \/ interrupt
    \/ run_forever_stop

(***************************************************************************)
(* Properties of the MQTT client adapter                                   *)
(***************************************************************************)
\* the client is connected, its connect-time replay is done, no operation is
\* part-way and the broker has processed every packet written so far
Settled ==
    /\ link
    /\ netpc = "up"
    /\ pending = <<>>
    /\ lockOwner = NoThread

C6_ReplaceAtomic ==
    \A u \in Users : pc[u] = "cb_clear" => rd[u] = "whole"

(***************************************************************************)
(* Properties of the neighbour lifecycle                                   *)
(***************************************************************************)
\* C3: update_cb(loaded) stops and forgets exactly the neighbours that are
\* gone from loaded or whose descriptor differs, starts exactly those that are
\* new or whose descriptor differs, leaves alone (same client, still running)
\* those whose descriptor is unchanged, and once it has returned the known
\* neighbours are those of loaded.
C3_UpdateCbSets ==
    LET ToStop == {id \in DOMAIN cur0 : id \notin DOMAIN loaded \/ loaded[id] # cur0[id]}
        ToStart == {id \in DOMAIN loaded : id \notin DOMAIN cur0 \/ loaded[id] # cur0[id]}
        Same == {id \in DOMAIN cur0 \cap DOMAIN loaded : loaded[id] = cur0[id]}
    IN lastLoad # "none" =>
        /\ stopped \subseteq ToStop
        /\ started \subseteq ToStart
        /\ started # {} => stopped = ToStop
        /\ \A id \in stopped : <<id, cur0[id]>> \notin running
        /\ \A id \in stopped \ ToStart : id \notin DOMAIN neighbours
        /\ \A id \in Same :
              /\ id \notin stopped \cup started
              /\ id \in DOMAIN neighbours /\ neighbours[id] = cur0[id]
              /\ <<id, cur0[id]>> \in running
        /\ upc = "idle" =>
              /\ stopped = ToStop
              /\ started = ToStart
              /\ neighbours = loaded
              /\ running = {<<id, loaded[id]>> : id \in DOMAIN loaded}

\* an update_cb that has returned after it stopped a neighbour, started one
\* and left one alone
C3_Witness ==
    /\ upc = "idle"
    /\ lastLoad = "ok"
    /\ stopped # {}
    /\ started # {}
    /\ \E id \in DOMAIN cur0 \cap DOMAIN loaded : loaded[id] = cur0[id]

\* C8: within one update_cb call no remote client is stopped once one has
\* been started, and no neighbour ever has two remote clients running.
C8_StopsBeforeStarts ==
    /\ [][(stopped' # stopped /\ stopped \subseteq stopped') => started' = {}]_vars
    /\ [](\A id \in NghbIds : Cardinality({c \in running : c[1] = id}) <= 1)

\* a neighbour restarted by the current call: stopped, then started again
C8_Witness ==
    /\ stopped \cap started # {}
    /\ \E id \in stopped \cap started : <<id, loaded[id]>> \in running

\* C9: when the HTTP fetch fails update_cb is not called: nothing is stopped
\* or started and the neighbours are exactly those of before the attempt.
C9_HttpFailureKeepsState ==
    (authority = "http" /\ lastLoad = "failed") =>
        /\ stopped = {}
        /\ started = {}
        /\ running = run0
        /\ neighbours = cur0

\* C10: when the file authority finds no file, update_cb gets an empty
\* directory and completes without error, every neighbour stopped and none
\* started.
C10_NoFileIsEmptyDirectory ==
    (authority = "file" /\ lastLoad = "notfound") =>
        /\ upc # "raised"
        /\ started = {}
        /\ upc = "idle" => (running = {} /\ DOMAIN neighbours = {})

\* C18: the remote client of every neighbour that update_cb has started is
\* itself subscribed to the interqueue of that neighbour, every level below
\* it included, so that what the neighbour publishes there reaches it.
C18_RemoteClientSubscribed ==
    \A id \in DOMAIN neighbours_clients :
        <<id, neighbours_clients[id].desc>> \in running =>
            NghbInterqueue(neighbours_clients[id].desc) \o <<"/", "#">>
                \in neighbours_clients[id].subscriptions

(***************************************************************************)
(* Properties of the message copy                                          *)
(***************************************************************************)
\* the calls of Filter.apply made for the in-filters, in the order made
InCalls == SelectSeq(last.trace, LAMBDA e : e.dir = "in")

\* some filter dropped the last message (for some destination)
SomeDrop == \E i \in 1..Len(last.trace) : last.trace[i].topic_out = NoneStr

\* the number of messages sent to a broker on a topic, with the payload of
\* the last message received
Copies(topic) ==
    Cardinality({i \in 1..Len(last.wire) :
                    last.wire[i].topic = topic /\ last.wire[i].payload = last.payload})

\* C1: a message received on the local inQueue that no filter drops is
\* published exactly once on the outQueue and exactly once on the interQueue,
\* on the topic with the inQueue prefix replaced and with the same payload.
C1_LocalFanOut ==
    (last.src = "local" /\ ~SomeDrop) =>
        LET tail == SliceFrom(last.topic, Len(last.copy_from))
        IN /\ Copies(outqueue \o tail) = 1
           /\ Copies(interqueue \o tail) = 1
           /\ Len(last.wire) = 2

\* C5: a message a remote client received from its neighbour's interqueue and
\* that passes the filters is published exactly once, by the local client, on
\* the local outQueue topic; nothing goes to an interQueue or through a
\* remote client.
C5_NeighbourToLocalOut ==
    (last.src \in NghbIds /\ ~SomeDrop) =>
        LET tail == SliceFrom(last.topic, Len(last.copy_from))
        IN /\ Copies(outqueue \o tail) = 1
           /\ Len(last.wire) = 1
           /\ \A i \in 1..Len(last.wire) :
                 /\ last.wire[i].via = LocalQm
                 /\ ~StartsWith(last.wire[i].topic, interqueue)

\* C7: the in-filters are applied in declared order from the first, each
\* with the retain value the previous one returned (False for the first); the
\* loop stops at the first drop and only there, and after a drop no other
\* filter is applied and nothing is published.
C7_InFiltersInOrder ==
    LET n == Len(InCalls)
    IN last.src # "none" =>
        /\ n <= Len(filters.in)
        /\ SubSeq(last.trace, 1, n) = InCalls
        /\ \A i \in 1..n :
              /\ InCalls[i].idx = i
              /\ InCalls[i].retain_in = IF i = 1 THEN PyBool(FALSE) ELSE InCalls[i - 1].retain_out
              /\ i < n => InCalls[i].topic_out # NoneStr
        /\ n < Len(filters.in) => (n > 0 /\ InCalls[n].topic_out = NoneStr)
        /\ (n > 0 /\ InCalls[n].topic_out = NoneStr) =>
              /\ Len(last.trace) = n
              /\ last.calls = <<>>
              /\ last.wire = <<>>

\* a message whose retain value an in-filter rewrote before a later in-filter
\* dropped it, with a filter left that was not applied
C7_Witness ==
    /\ last.src # "none"
    /\ Len(InCalls) < Len(filters.in)
    /\ InCalls[Len(InCalls)].topic_out = NoneStr
    /\ \E i \in 1..Len(InCalls) - 1 : InCalls[i].retain_out # InCalls[i].retain_in

(***************************************************************************)
(* Properties of the message reception                                     *)
(***************************************************************************)
\* C11: an exception raised by the user callback is swallowed by the adapter:
\* the receive loop keeps running, so that the messages received afterwards
\* are still delivered to the callback.
C11_CallbackRaiseSwallowed ==
    cbRaised => rxLoop = "running"

(***************************************************************************)
(* Properties of the DENM codec                                            *)
(***************************************************************************)
\* the sequence numbers of the DENMs created for uuid without an explicit
\* sequence number, in creation order
NewNumbers(uuid) ==
    LET IsNew(d) == d.uuid = uuid /\ d.supplied = {}
        news == SelectSeq(denms, IsNew)
    IN [i \in 1..Len(news) |-> news[i].sequence_number]

C13_ExplicitSeqNumKept ==
    [][(Len(denms') = Len(denms) + 1 /\ denms'[Len(denms')].supplied # {})
        => /\ seq_nums' = seq_nums
           /\ denms'[Len(denms')].supplied = {denms'[Len(denms')].sequence_number}]_vars

\* a terminated continuation built after a new DENM of the same UUID, followed
\* by another new DENM
C13_Witness ==
    /\ Len(denms) = 3
    /\ denms[1].supplied = {} /\ denms[1].uuid = "ua"
    /\ denms[2].supplied = {7} /\ denms[2].uuid = "ua"
    /\ denms[2].termination = isCancellation
    /\ denms[3].supplied = {} /\ denms[3].uuid = "ua"
    /\ denms[3].sequence_number = (denms[1].sequence_number + 1) % SeqModulus

\* C14: the termination state of a DENM only moves from active to cancelled
\* or from active to negated, and once cancelled or negated it never changes.
C14_TerminationIsFinal ==
    [][\A i \in 1..Len(denms) :
        termination_getter(denms'[i]) # termination_getter(denms[i])
            => termination_getter(denms[i]) = TermNone]_vars

(***************************************************************************)
(* Properties of the quadkeys                                              *)
(***************************************************************************)
\* the call returned a quadkey
Defined(out) == ~Raised(out) /\ out # NoneStr

\* C19: whenever a direction gives a tile, the opposite direction applied to
\* that tile gives the tile one started from; the same for the up/down and
\* left/right pairs of get_neighbour.
C19_OppositeDirections ==
    /\ (qkOp = "north_of" /\ Defined(qkOut)) => south_of(qkOut) = qkIn
    /\ (qkOp = "south_of" /\ Defined(qkOut)) => north_of(qkOut) = qkIn
    /\ (qkOp = "east_of" /\ Defined(qkOut)) => west_of(qkOut) = qkIn
    /\ (qkOp = "west_of" /\ Defined(qkOut)) => east_of(qkOut) = qkIn
    /\ qkOp = "up" => get_neighbour(qkOut, "down") = qkIn
    /\ qkOp = "down" => get_neighbour(qkOut, "up") = qkIn
    /\ qkOp = "left" => get_neighbour(qkOut, "right") = qkIn
    /\ qkOp = "right" => get_neighbour(qkOut, "left") = qkIn

\* a move to the east that leaves the parent tile and goes round the globe
C19_Witness ==
    /\ qkOp = "east_of"
    /\ qkIn = <<"1", "3", "1">>
    /\ qkOut = <<"0", "2", "0">>

\* all the digits of a non-empty key are in ds
Row(q, ds) == q # <<>> /\ \A i \in 1..Len(q) : q[i] \in ds

\* C20: north_of() of a key of the northernmost row and south_of() of a key
\* of the southernmost row return None without raising, and neighbours() of
\* such a key has None in the three positions on that side.
C20_PolarAbsent ==
    /\ (qkOp = "north_of" /\ Row(qkIn, {"0", "1"})) => qkOut = NoneStr
    /\ (qkOp = "south_of" /\ Row(qkIn, {"2", "3"})) => qkOut = NoneStr
    /\ (qkOp = "neighbours" /\ Row(qkIn, {"0", "1"})) =>
            (~Raised(qkOut) /\ \A i \in 1..3 : qkOut[i] = NoneStr)
    /\ (qkOp = "neighbours" /\ Row(qkIn, {"2", "3"})) =>
            (~Raised(qkOut) /\ \A i \in 6..8 : qkOut[i] = NoneStr)

(***************************************************************************)
(* Properties of the region of interest and of the reporting step          *)
(***************************************************************************)
\* C15: in every reporting step that publishes a position message, the
\* subscriptions for the region of interest of that position are updated
\* before the message is published; no step publishes first.
C15_SubscribeBeforePublish ==
    \A r \in DOMAIN log : \A i \in 1..Len(log[r]) :
        log[r][i].e = "pub" =>
            \E j \in 1..(i - 1) : log[r][j].e = "sub" /\ log[r][j].step = log[r][i].step

\* C16: the depth of the region of interest is the configured depth of the
\* message type less one level for each threshold the speed is strictly
\* above, and never less than 1; a speed equal to a threshold removes nothing.
C16_RoiDepth ==
    roiCall.msg_type # <<>> =>
        LET exceeded == {i \in DOMAIN speeds : roiCall.speed > speeds[i]}
            d == depths[roiCall.msg_type] - Cardinality(exceeded)
        IN roiCall.depth = IF d < 1 THEN 1 ELSE d

\* C17: for a message type, the tiles subscribed to are the shallowed tile and
\* each of its neighbours that exists, one wildcard per tile: 9 when the tile
\* has all its neighbours, fewer, without a failure, on a polar row.
C17_RoiTopics ==
    roiCall.msg_type # <<>> =>
        LET q == SubSeq(roiCall.quadkey, 1, roiCall.depth)
            w == west_of_s(q)
            e == east_of_s(q)
            block == {q, w, e, north_of_s(q), south_of_s(q), north_of_s(w),
                      north_of_s(e), south_of_s(w), south_of_s(e)} \ {NoneStr}
            polar == Row(q, {"0", "1"}) \/ Row(q, {"2", "3"})
        IN /\ roiCall.exc = <<>>
           /\ roiCall.roi = block
           /\ Cardinality({roi_topic(roiCall.msg_type, qk) : qk \in roiCall.roi})
                = IF polar THEN 6 ELSE 9

\* C21: neighbours() of the tile 033 is, in the order NW, N, NE, W, E, SW, S,
\* SE, the tuple (030, 031, 120, 032, 122, 210, 211, 300).
C21_Neighbours033 ==
    (qkOp = "neighbours" /\ qkIn = <<"0", "3", "3">>) =>
        qkOut = << <<"0", "3", "0">>, <<"0", "3", "1">>, <<"1", "2", "0">>,
                   <<"0", "3", "2">>, <<"1", "2", "2">>,
                   <<"2", "1", "0">>, <<"2", "1", "1">>, <<"3", "0", "0">> >>

\* neighbours() of 033 as (NW=032, N=031, NE=120, W=030, E=122, SW=212, S=211,
\* SE=300)
C21_Neighbours033_AsStated ==
    (qkOp = "neighbours" /\ qkIn = <<"0", "3", "3">>) =>
        qkOut = << <<"0", "3", "2">>, <<"0", "3", "1">>, <<"1", "2", "0">>,
                   <<"0", "3", "0">>, <<"1", "2", "2">>,
                   <<"2", "1", "2">>, <<"2", "1", "1">>, <<"3", "0", "0">> >>

\* neighbours() of 033 has returned its eight tiles
C21_Witness ==
    /\ qkOp = "neighbours"
    /\ qkIn = <<"0", "3", "3">>
    /\ Len(qkOut) = 8
    /\ \A i \in 1..8 : Defined(qkOut[i])

\* C30: make_shallower(d) of a key returns the prefix of the key whose depth
\* is min(depth, d) when d > 0 and max(1, depth + d) when d <= 0; the result
\* never has depth 0.
C30_MakeShallowerDepth ==
    (qkOp = "make_shallower" /\ qkIn # <<>>) =>
        LET new_depth == IF qkArg > 0
                         THEN (IF qkArg < Len(qkIn) THEN qkArg ELSE Len(qkIn))
                         ELSE (IF Len(qkIn) + qkArg > 1 THEN Len(qkIn) + qkArg ELSE 1)
        IN qkOut = SubSeq(qkIn, 1, new_depth)

(***************************************************************************)
(* Properties of the zones                                                 *)
(***************************************************************************)
\* the tile t lies in the area the keys of the zone cover together
RECURSIVE Covered(_, _)
Covered(t, zone) ==
    \/ \E k \in zone : Len(k) <= Len(t) /\ SubSeq(t, 1, Len(k)) = k
    \/ /\ Len(t) < MaxQkDepth
       /\ \A d \in {"0", "1", "2", "3"} : Covered(Append(t, d), zone)

\* C22: after optimise() no key of the zone is an ancestor of another and no
\* four siblings are all present, and the result is fixed by the set of keys
\* given: it covers the tiles that set covers and no other.
C22_Optimised ==
    qkOp = "optimise" =>
        /\ \A a \in qkOut : \A b \in qkOut \ {a} :
                ~(Len(a) <= Len(b) /\ SubSeq(b, 1, Len(a)) = a)
        /\ \A a \in qkOut \ {<<>>} :
                \E d \in {"0", "1", "2", "3"} : Append(ButLast(a), d) \notin qkOut
        /\ \A t \in KeysOfDepth(MaxQkDepth) :
                (\E k \in qkOut : SubSeq(t, 1, Len(k)) = k)
                    <=> (\E k \in qkIn : SubSeq(t, 1, Len(k)) = k)

\* the zone of the five keys 00, 01, 02, 03 and 1 has become that of 0 and 1
C22_Witness ==
    /\ qkOp = "optimise"
    /\ qkIn = {<<"0", "0">>, <<"0", "1">>, <<"0", "2">>, <<"0", "3">>, <<"1">>}
    /\ qkOut = {<<"0">>, <<"1">>}

\* C23: no tile that neighbours(d) of a zone returns lies in the area the
\* zone covers.
C23_NeighboursOutside ==
    qkOp = "zone_neighbours" =>
        \A t \in qkOut.quadkeys : ~Covered(t, qkIn)

\* C24: si2etsi returns undef for an absent value when undef is given and
\* fails when it is not; otherwise it returns round(value / scale) when that
\* is within the validity range or no range is given, and outside the range
\* out_of_range when given, else the nearest bound; with a range the result
\* is within the range or is undef or out_of_range
C24_Si2Etsi ==
    qkOp \in {"si2etsi", "do_convert"} =>
        LET a == qkIn
            r == round(a.value.v, a.scale)
            ranged == a.validity_range # None
        IN  /\ IF a.value = None
               THEN qkOut = IF a.undef # None THEN a.undef ELSE AttributeError
               ELSE IF ~ranged \/ (a.validity_range.min <= r /\ r <= a.validity_range.max)
               THEN qkOut = IntValue(r)
               ELSE IF a.out_of_range # None
               THEN qkOut = a.out_of_range
               ELSE qkOut = IntValue(IF r < a.validity_range.min
                                     THEN a.validity_range.min
                                     ELSE a.validity_range.max)
            /\ (ranged /\ qkOut # AttributeError) =>
                \/ qkOut \in {a.undef, a.out_of_range}
                \/ /\ a.validity_range.min <= qkOut.v
                   /\ qkOut.v <= a.validity_range.max

C24_Witness ==
    /\ qkOp = "si2etsi"
    /\ qkIn.value = IntValue(3)
    /\ qkIn.scale = 2
    /\ qkIn.validity_range # None
    /\ qkIn.out_of_range = None
    /\ qkOut = IntValue(qkIn.validity_range.max)

\* C25: for every scale s, sentinel U and value x that is a whole number of
\* scales, etsi2si(si2etsi(x, s, undef=U), s, undef=U) is x, and the round
\* trip of an absent value is absent
C25_RoundTrip ==
    (qkOp = "round_trip" /\ qkIn.undef # None) =>
        IF qkIn.value = None
        THEN qkOut = None
        ELSE qkIn.value.v % qkIn.scale = 0 => qkOut = qkIn.value

\* C26: in the three implementations generation_delta_time(t) is the count
\* of TAI milliseconds elapsed between 2004-01-01T00:00:00 and t, leap
\* seconds included, modulo 65536
C26_GenerationDeltaTime ==
    qkOp \in {"generation_delta_time", "vehicle_generation_delta_time",
              "cam_generation_delta_time"} =>
        LET t == qkIn.unix_time
            leaps == dTAI_UTC_from_utc(t.s) - dTAI_UTC_from_utc(1072915200)
        IN  qkOut = Mod65536([s |-> t.s - 1072915200 + leaps, ms |-> t.ms])

\* C27: generation_delta_time(2007-01-01T00:00:00Z) is
\* 94694401000 mod 65536, which is 58344
C27_GenerationDeltaTime2007 ==
    (/\ qkOp = "generation_delta_time"
     /\ qkIn.unix_time = [s |-> 1167609600, ms |-> 0]) =>
        /\ qkIn.etsi_time = [s |-> 94694401, ms |-> 0]
        /\ qkOut = 58344

\* C27 as stated: the result is 39784
C27_GenerationDeltaTime2007_AsStated ==
    (/\ qkOp = "generation_delta_time"
     /\ qkIn.unix_time = [s |-> 1167609600, ms |-> 0]) =>
        /\ qkIn.etsi_time = [s |-> 94694401, ms |-> 0]
        /\ qkOut = 39784

C27_Witness ==
    /\ qkOp = "generation_delta_time"
    /\ qkIn.unix_time = [s |-> 1167609600, ms |-> 0]
    /\ qkIn.tz = "Europe/Paris"
    /\ qkOut = Mod65536([s |-> 94694401, ms |-> 0])

\* C28: when a filter that does not drop and rewrites retain from a JSON
\* path matches, retain becomes the integer found at the path; when the
\* payload is not JSON, the path is missing or the value there is not an
\* integer, retain becomes the fallback if there is one and is unchanged
\* otherwise
C28_JsonRetain ==
    \A k \in 1..Len(last.trace) :
        LET e == last.trace[k]
            f == (IF e.dir = "in" THEN filters.in ELSE filters.out)[e.idx]
            found == IF last.payload.json
                     THEN Walk(last.payload.data, f.retain.path)
                     ELSE None
        IN  (f.retain.t = "json" /\ ~f.drop /\ Matches(f, e.topic_in)) =>
                IF found.t = "int" THEN e.retain_out = found
                ELSE IF f.retain.fallback # None
                     THEN e.retain_out = f.retain.fallback
                     ELSE e.retain_out = e.retain_in

\* C29: for a message of the local inQueue that the in-filters keep, each
\* destination gets the result of the out-filters applied to the in-filter
\* result and to the topic rewritten for that destination alone: its copy is
\* published unless its own out-filters drop it, with the retain value its
\* own out-filters give
C29_PerDestination ==
    LET in == FilterLoop(filters.in, "in", 0, 1, last.topic, last.payload,
                         PyBool(FALSE), <<>>)
        copy_to == <<outqueue, interqueue>>
    IN  (last.src = "local" /\ in.topic # NoneStr) =>
            \A j \in 1..Len(copy_to) :
                LET new_topic == copy_to[j] \o SliceFrom(in.topic, Len(last.copy_from))
                    o == FilterLoop(filters.out, "out", j, 1, new_topic,
                                    in.payload, in.retain, <<>>)
                    kwargs == [topic |-> o.topic, payload |-> o.payload,
                               retain |-> o.retain]
                    called == \E c \in 1..Len(last.calls) : last.calls[c].kwargs = kwargs
                    published == \E w \in 1..Len(last.wire) : last.wire[w].topic = new_topic
                IN  IF o.topic = NoneStr
                    THEN ~published
                    ELSE called /\ published

\* C40: every key of a zone after optimise() has a depth between 1 and 30;
\* merging the four tiles of depth 1 does not give the empty key
C40_OptimisedDepth ==
    qkOp = "optimise" => \A k \in qkOut : 1 <= Len(k) /\ Len(k) <= 30

\* C36: decoding a message changes no sequence counter: the next new DENM
\* of any UUID gets the number it would have got without the decode
C36_DecodeKeepsCounters ==
    [][Len(decoded') = Len(decoded) + 1
        => \A u \in Uuids :
               get_seq_num(seq_nums', u)[u] = get_seq_num(seq_nums, u)[u]]_vars

\* C37: when threads create new DENMs of one UUID at the same time, the
\* numbers obtained are all distinct and the counter of the UUID has advanced
\* by the number of creations
C37_NoLostNumber ==
    (\A t \in Threads : creators[t].pc = "idle") =>
        \A u \in Uuids :
            LET Got == {<<t, i>> \in Threads \X (1..MaxCreates) :
                            /\ i <= Len(creators[t].got)
                            /\ creators[t].got[i].uuid = u}
                before == IF u \in DOMAIN seq0 THEN seq0[u] ELSE 0 - 1
            IN  /\ \A a \in Got : \A b \in Got :
                    a # b => creators[a[1]].got[a[2]].n # creators[b[1]].got[b[2]].n
                /\ Got # {} => seq_nums[u] = (before + Cardinality(Got)) % SeqModulus

\* C38: after any sequence of assignments to cause and subcause, the stored
\* sub-cause is a member of the variant of the current cause: reading it
\* neither raises nor gives a member made from a value that was stored as a
\* member of the variant of another cause
C38_SubcauseOfCause ==
    event_type.subcause # {} =>
        /\ subcause_getter(event_type) \notin {AttributeError, ValueError}
        /\ assigned.variant = event_type.cause

\* C39: a reporting tick of the vehicle client whose GNSS report has a
\* latitude and a longitude ends with the subscriptions replaced and then the
\* message published, and the loop keeps running, also when an optional
\* field such as the speed is absent: no tick ends with an exception.
C39_TickCompletes ==
    stepRes["its_vehicle"] # "raised"

(***************************************************************************)
(* Properties of the GNSS caches                                           *)
(***************************************************************************)
\* C31: a GNSS cache answers with a report only when its last fix was stored
\* at most one second before the call; with an older fix (the provider went
\* silent) it answers None.
C31_FreshReportOnly ==
    gnss_got.report # None =>
        gnss_got.now - gnss_got.report.timestamp <= 1

(***************************************************************************)
(* Properties of the telemetry exporter                                    *)
(***************************************************************************)
\* C34: the span queue never holds more than twice the configured backlog
\* (2 * 1023 = 2046 spans by default); export_span returns without waiting,
\* and a span offered to a full queue is dropped while the queued spans stay
\* as they were.
C34_QueueBounded ==
    /\ Len(span_queue) <= 2 * max_backlog
    /\ exported.span # 0 =>
        exported.after = IF Len(exported.before) = 2 * max_backlog
                         THEN exported.before
                         ELSE Append(exported.before, exported.span)

\* C34 as stated: the queue holds at most the configured backlog
C34_QueueBounded_AsStated ==
    Len(span_queue) <= max_backlog

\* a span has been offered to a full queue
C34_Witness ==
    /\ exported.span # 0
    /\ Len(exported.before) = 2 * max_backlog

\* C35: after any sequence of update_cb calls, those that raised on an
\* invalid descriptor included, neighbours and neighbours_clients have the
\* same keys and the remote client of every key is running.
C35_SameKeys ==
    upc # "update_cb" =>
        /\ DOMAIN neighbours = DOMAIN neighbours_clients
        /\ \A id \in DOMAIN neighbours :
                <<id, neighbours_clients[id].desc>> \in running

\* C32: an invocation of update_cb processes its directory to completion, all
\* its stops and then all its starts, before the next directory is looked at:
\* no invocation ends with a stop or a start of its directory left undone.
C32_RunsToCompletion ==
    upc # "update_cb" => (todoStop = {} /\ todoStart = {})

\* C33: the neighbour map is never read by another thread while update_cb is
\* changing it: the loop of run_forever over the map, at shutdown, does not
\* run while an update_cb call has stops or starts to do, and it never fails
\* on a map that changed under it.
C33_NoReadWhileMutating ==
    /\ ~(main.pc = "stopping" /\ upc = "update_cb" /\ todoStop \cup todoStart # {})
    /\ main.pc # "raised"

\* each specification starts the part it does not exercise in one fixed
\* initial state
Init ==
    /\ InitMqtt /\ InitNghb /\ InitCopy /\ InitRx /\ InitDenm /\ InitQk /\ InitRoi
    /\ InitGnss /\ InitOtel /\ InitMain

NoFilters == [in |-> <<>>, out |-> <<>>]

InitForMqtt == Init /\ authority = "mqtt" /\ filters = NoFilters /\ seq0 = <<>>

InitForNghb == Init /\ msg_cb = TRUE /\ filters = NoFilters /\ seq0 = <<>>

InitForCopy == Init /\ msg_cb = TRUE /\ authority = "mqtt" /\ seq0 = <<>>

SpecMqtt == InitForMqtt /\ [][NextMqtt]_vars

SpecNghb == InitForNghb /\ [][NextNghb]_vars

SpecNghbLocal == InitForNghb /\ [][NextNghbLocal]_vars

SpecCopy == InitForCopy /\ [][NextCopy]_vars

\* the state every specification but one starts its other parts in
Quiet == msg_cb = TRUE /\ authority = "mqtt" /\ filters = NoFilters

InitForRx == Init /\ Quiet /\ seq0 = <<>>

InitForDenm == Init /\ Quiet

SpecDenm == InitForDenm /\ [][NextDenm]_vars

SpecQk == InitForRx /\ [][NextQk]_vars

SpecRx == InitForRx /\ [][NextRx]_vars

SpecRoi == InitForRx /\ [][NextRoi]_vars

SpecStep == InitForRx /\ [][NextStep]_vars

SpecZone == InitForRx /\ [][NextZone]_vars

SpecEtsi == InitForRx /\ [][NextEtsi]_vars

SpecDecode == InitForDenm /\ [][NextDecode]_vars

SpecCreators == InitForDenm /\ [][NextCreators]_vars

SpecCause == InitForDenm /\ [][NextCause]_vars

SpecGnss == InitForRx /\ [][NextGnss]_vars

SpecOtel == InitForRx /\ [][NextOtel]_vars

SpecShutdown == InitForNghb /\ [][NextShutdown]_vars

====
